---- MODULE Spec2Model ----
(***************************************************************************)
(* Model of lib/fuse_opt.c: the fuse_opt_parse() option parser.            *)
(*                                                                         *)
(* C strings are sequences of byte values (ASCII codes); the terminating   *)
(* NUL is implicit and At() returns it for an index one past the end.      *)
(* Where the source uses two spellings for one object (ctx->proc and       *)
(* ctx->in_proc, ctx->opts and ctx->tmp_opts, ctx->data and                *)
(* ctx->inout_data, sep and sep_idx, opt and optspec) the model uses the   *)
(* name declared in struct fuse_opt_context or in the parameter list.      *)
(***************************************************************************)
EXTENDS Integers, Sequences, FiniteSets, TLC

(* ---------------------------------------------------------------------- *)
(* bytes and C strings                                                     *)
(* ---------------------------------------------------------------------- *)

Ch ==
  [ nul |-> 0, sp |-> 32, pct |-> 37, plus |-> 43, comma |-> 44,
    dash |-> 45, zero |-> 48, one |-> 49, three |-> 51, four |-> 52,
    five |-> 53, seven |-> 55, nine |-> 57, eq |-> 61, bsl |-> 92, b |-> 98, d |-> 100, k |-> 107,
    o |-> 111, p |-> 112, s |-> 115, u |-> 117, x |-> 120 ]

\* arg[i] with C's 0-based indexing; the byte after the last one is NUL
At(str, i) ==
  IF i >= 0 /\ i < Len(str) THEN str[i + 1] ELSE Ch.nul

\* str + i: the suffix starting at 0-based index i
From(str, i) ==
  SubSeq(str, i + 1, Len(str))

\* strchr(str, c): 0-based index of the first c, or -1 for NULL
strchr(str, c) ==
  IF \E i \in 1..Len(str) : str[i] = c
  THEN (CHOOSE i \in 1..Len(str) :
          str[i] = c /\ \A j \in 1..(i - 1) : str[j] # c) - 1
  ELSE -1

\* the C string held by a buffer: the bytes before the first NUL
RECURSIVE CStr(_)
CStr(buf) ==
  IF buf = <<>> \/ Head(buf) = Ch.nul THEN <<>>
  ELSE <<Head(buf)>> \o CStr(Tail(buf))

\* the C strings of at most n characters of an alphabet
RECURSIVE Strings(_, _)
Strings(alphabet, n) ==
  IF n = 0 THEN {<<>>}
  ELSE Strings(alphabet, n - 1)
         \cup {Append(str, c) :
                 str \in {w \in Strings(alphabet, n - 1) : Len(w) = n - 1},
                 c \in alphabet}

(* ---------------------------------------------------------------------- *)
(* struct fuse_args utilities                                              *)
(* ---------------------------------------------------------------------- *)

\* args->argv after a successful fuse_opt_add_arg(args, arg)
fuse_opt_add_arg(argv, arg) ==
  Append(argv, arg)

\* fuse_opt_insert_arg without the memmove
fuse_opt_insert_arg_no_move(argv, pos, arg) ==
  fuse_opt_add_arg(argv, arg)

\* args->argv after a successful fuse_opt_insert_arg(args, pos, arg):
\* append, then move the new entry down to pos
fuse_opt_insert_arg(argv, pos, arg) ==
  LET w    == fuse_opt_add_arg(argv, arg)
      argc == Len(w)
  IN  IF pos # argc - 1
      THEN [i \in 1..argc |->
              IF i - 1 < pos THEN w[i]
              ELSE IF i - 1 = pos THEN w[argc]
              ELSE w[i - 1]]
      ELSE w

\* the NULL pointer as an entry of an argv array
NullPtr == <<0 - 1>>

\* fuse_opt_add_arg(args, arg) on the structure a, whose argv is the array
\* with its terminator (<<>> for a NULL argv): okdup and okre say whether
\* strdup and realloc succeed
add_arg_call(a, arg, okdup, okre) ==
  IF ~okdup \/ ~okre
  THEN [res |-> 0 - 1, args |-> a]
  ELSE [res |-> 0,
        args |-> [argc |-> a.argc + 1,
                  argv |-> [i \in 1..(a.argc + 2) |->
                              IF i = a.argc + 1 THEN arg
                              ELSE IF i = a.argc + 2 THEN NullPtr
                              ELSE a.argv[i]],
                  allocated |-> TRUE]]

\* fuse_opt_insert_arg_common with a memmove of one entry less
fuse_opt_insert_arg_common_short_move(a, pos, arg, okdup, okre) ==
  LET o    == add_arg_call(a, arg, okdup, okre)
      argc == o.args.argc
      w    == o.args.argv
  IN  IF o.res = 0 - 1 THEN o
      ELSE IF pos # argc - 1
      THEN [o EXCEPT !.args.argv =
              [i \in 1..Len(w) |->
                 IF i - 1 = pos THEN w[argc]
                 ELSE IF i - 1 >= pos + 1 /\ i - 1 <= argc - 2 THEN w[i - 1]
                 ELSE w[i]]]
      ELSE o

\* fuse_opt_insert_arg_common(args, pos, arg) on the structure a: the
\* memmove copies argv[pos .. argc-2] to argv[pos+1 .. argc-1], then the new
\* entry is stored at pos
fuse_opt_insert_arg_common(a, pos, arg, okdup, okre) ==
  LET o    == add_arg_call(a, arg, okdup, okre)
      argc == o.args.argc
      w    == o.args.argv
  IN  IF o.res = 0 - 1 THEN o
      ELSE IF pos # argc - 1
      THEN [o EXCEPT !.args.argv =
              [i \in 1..Len(w) |->
                 IF i - 1 = pos THEN w[argc]
                 ELSE IF i - 1 >= pos + 1 /\ i - 1 <= argc - 1 THEN w[i - 1]
                 ELSE w[i]]]
      ELSE o

\* the bytes written for opt by the copy loop of add_opt_common
RECURSIVE EscapeOpt(_, _)
EscapeOpt(opt, esc) ==
  IF opt = <<>> THEN <<>>
  ELSE (IF esc /\ (Head(opt) = Ch.comma \/ Head(opt) = Ch.bsl)
        THEN <<Ch.bsl, Head(opt)>> ELSE <<Head(opt)>>)
       \o EscapeOpt(Tail(opt), esc)

\* *opts after a successful add_opt_common(opts, opt, esc).
\* opts is [set |-> FALSE] for a NULL pointer, else [set |-> TRUE, str |-> ..]
add_opt_common(opts, opt, esc) ==
  LET old    == IF opts.set THEN opts.str ELSE <<>>
      oldlen == Len(old)
  IN  [set |-> TRUE,
       str |-> (IF oldlen # 0 THEN old \o <<Ch.comma>> ELSE <<>>)
               \o EscapeOpt(opt, esc)]

(* ---------------------------------------------------------------------- *)
(* finding the struct fuse_opt that matches a string                       *)
(* ---------------------------------------------------------------------- *)

\* match_template that knows no separators
match_template_exact_only(templ, arg) ==
  IF templ = arg
  THEN [match |-> TRUE, sepidx |-> 0]
  ELSE [match |-> FALSE, sepidx |-> 0]

\* match_template without the stemlen++ for a "=" separator
match_template_no_eq(templ, arg) ==
  LET arglen == Len(arg)
      eq     == strchr(templ, Ch.eq)
      sep0   == IF eq # -1 THEN eq ELSE strchr(templ, Ch.sp)
      sep    == IF sep0 # -1 /\ At(templ, sep0 + 1) # Ch.nul
                            /\ At(templ, sep0 + 1) # Ch.pct
                THEN -1 ELSE sep0
      stemlen == sep
  IN  IF sep # -1 /\ arglen >= stemlen
                  /\ SubSeq(arg, 1, stemlen) = SubSeq(templ, 1, stemlen)
      THEN [match |-> TRUE, sepidx |-> sep]
      ELSE IF templ = arg
      THEN [match |-> TRUE, sepidx |-> 0]
      ELSE [match |-> FALSE, sepidx |-> 0]

match_template(templ, arg) ==
  LET arglen == Len(arg)
      eq     == strchr(templ, Ch.eq)
      sep0   == IF eq # -1 THEN eq ELSE strchr(templ, Ch.sp)
      sep    == IF sep0 # -1 /\ At(templ, sep0 + 1) # Ch.nul
                            /\ At(templ, sep0 + 1) # Ch.pct
                THEN -1 ELSE sep0
      stemlen == IF At(templ, sep) = Ch.eq THEN sep + 1 ELSE sep
  IN  IF sep # -1 /\ arglen >= stemlen
                  /\ SubSeq(arg, 1, stemlen) = SubSeq(templ, 1, stemlen)
      THEN [match |-> TRUE, sepidx |-> sep]
      ELSE IF templ = arg
      THEN [match |-> TRUE, sepidx |-> 0]
      ELSE [match |-> FALSE, sepidx |-> 0]

\* the loop of find_opt from entry number from on: the first entry whose
\* template matches arg, with the separator index match_template reports
RECURSIVE find_opt_scan(_, _, _)
find_opt_scan(optspecs, from, arg) ==
  IF from > Len(optspecs) THEN [opt |-> 0, sep_idx |-> 0]
  ELSE LET m == match_template(optspecs[from].templ, arg)
       IN  IF m.match THEN [opt |-> from, sep_idx |-> m.sepidx]
           ELSE find_opt_scan(optspecs, from + 1, arg)

\* find_opt that skips the entry it is told to start at
find_opt_skips_one(optspecs, from, arg) ==
  LET hits == {i \in (from + 1)..Len(optspecs) :
                 match_template(optspecs[i].templ, arg).match}
  IN  IF hits = {} THEN [opt |-> 0, sep_idx |-> 0]
      ELSE [opt |-> CHOOSE h \in hits : \A g \in hits : h <= g,
            sep_idx |->
              match_template(
                optspecs[CHOOSE h \in hits : \A g \in hits : h <= g].templ,
                arg).sepidx]

\* find_opt(optspecs + (from - 1), arg): index of the first entry at or
\* after position from (1-based) that matches arg, 0 for NULL
find_opt(optspecs, from, arg) ==
  find_opt_scan(optspecs, from, arg)

(* ---------------------------------------------------------------------- *)
(* reserved keys and option tables                                         *)
(* ---------------------------------------------------------------------- *)

\* FUSE_OPT_KEY_OPT, _NONOPT, _KEEP and _DISCARD of fuse_opt.h
FUSE_OPT_KEY ==
  [OPT |-> -1, NONOPT |-> -2, KEEP |-> -3, DISCARD |-> -4]

\* offset of an entry made by FUSE_OPT_KEY(templ, key): the -1U of process_opt
NoOffset == 0 - 1

GOPT_FLAG == "GOPT_FLAG"
GOPT_OPTION == "GOPT_OPTION"

\* members of the caller's data record, by offset
Fields == {0, 1}

Unset == [t |-> "unset", v |-> <<>>]
IntVal(n) == [t |-> "int", v |-> <<n>>]
StrVal(str) == [t |-> "str", v |-> str]

OptEntry(templ, offset, value) ==
  [templ |-> templ, offset |-> offset, value |-> value]

\* the special value NOMEMBER of fuse_optdoc.h
NOMEMBER == 0 - 2

\* _OPTDOC_SPEC_GOPT_OPTPARAM with the FUSE_OPT_KEY entry first
OPTDOC_SPEC_GOPT_OPTPARAM_key_first(key, name, conv, member) ==
  <<OptEntry(name \o <<Ch.eq>>, NoOffset, key)>>
    \o (IF member = NOMEMBER THEN <<>>
        ELSE <<OptEntry(name \o <<Ch.eq>> \o conv, member, 0)>>)

\* the entries _OPTDOC_SPEC_GOPT_OPTPARAM puts into groupname_opt_spec[]:
\* {name "=" conv, offsetof(data_t, member), 0} unless NOMEMBER, then
\* FUSE_OPT_KEY(name "=", key)
OPTDOC_SPEC_GOPT_OPTPARAM(key, name, conv, member) ==
  (IF member = NOMEMBER THEN <<>>
   ELSE <<OptEntry(name \o <<Ch.eq>> \o conv, member, 0)>>)
    \o <<OptEntry(name \o <<Ch.eq>>, NoOffset, key)>>

\* the entries of _OPTDOC_SPEC_GOPT_OPTBOOL: FUSE_OPT_KEY(name, key_y),
\* FUSE_OPT_KEY(no name, key_n)
OPTDOC_SPEC_GOPT_OPTBOOL(key_y, key_n, no, name) ==
  << OptEntry(name, NoOffset, key_y), OptEntry(no \o name, NoOffset, key_n) >>

\* the option group declared with OPTDOC_GOPTS for the passes of the
\* declarative layer: the keys (from __COUNTER__) and members of
\*   OPTDOC_GOPT_OPTPARAM("s", "%d", .., KEEP, <member 0>, action)
\*   OPTDOC_GOPT_OPTBOOL("x", "u", .., DISCARD, <member 1>, action)
OptdocGroup ==
  [param |-> [key |-> 10, member |-> 0, preserve |-> 1],
   bool  |-> [key_y |-> 11, key_n |-> 12, member |-> 1, preserve |-> 0]]

\* groupname_opt_proc(data, arg, key, outargs) as generated by
\* _OPTDOC_GOPTS: the case of the key sets the member of an OPTBOOL, runs
\* the action (early: the action returns -1) and returns the preserve value;
\* the default case returns _OPTDOC_SPECIAL_KEEP
groupname_opt_proc(dat, key, early) ==
  IF key = OptdocGroup.param.key
  THEN [ret |-> IF early THEN 0 - 1 ELSE OptdocGroup.param.preserve,
        data |-> dat, action |-> TRUE]
  ELSE IF key = OptdocGroup.bool.key_y
  THEN [ret |-> IF early THEN 0 - 1 ELSE OptdocGroup.bool.preserve,
        data |-> [dat EXCEPT ![OptdocGroup.bool.member] = IntVal(1)],
        action |-> TRUE]
  ELSE IF key = OptdocGroup.bool.key_n
  THEN [ret |-> IF early THEN 0 - 1 ELSE OptdocGroup.bool.preserve,
        data |-> [dat EXCEPT ![OptdocGroup.bool.member] = IntVal(0)],
        action |-> TRUE]
  ELSE [ret |-> 1, data |-> dat, action |-> FALSE]

\* what ctx->proc returns for key and what it leaves in the record, when the
\* choice made for this invocation is r: the generated proc of the
\* declarative layer (r = -1: its action returns early), or a callback that
\* returns r and leaves the record alone
proc_call(proc, dat, key, r) ==
  IF proc = "optdoc"
  THEN groupname_opt_proc(dat, key, r = 0 - 1)
  ELSE [ret |-> r, data |-> dat, action |-> FALSE]

\* the option tables a pass may be given (FUSE_OPT_END is the end of the
\* sequence)
OptTables ==
  << \* 1: no entries
     << >>,
     \* 2: "-d" and "d" set a member and also carry a key; KEEP, DISCARD
     \*    and a converted "-b %d"
     << OptEntry(<<Ch.dash, Ch.d>>, 0, 1),
        OptEntry(<<Ch.dash, Ch.d>>, NoOffset, 1),
        OptEntry(<<Ch.dash, Ch.k>>, NoOffset, FUSE_OPT_KEY.KEEP),
        OptEntry(<<Ch.dash, Ch.x>>, NoOffset, FUSE_OPT_KEY.DISCARD),
        OptEntry(<<Ch.dash, Ch.b, Ch.sp, Ch.pct, Ch.d>>, 1, 0),
        OptEntry(<<Ch.d>>, 0, 1),
        OptEntry(<<Ch.d>>, NoOffset, 1),
        OptEntry(<<Ch.k>>, NoOffset, FUSE_OPT_KEY.KEEP),
        OptEntry(<<Ch.x>>, NoOffset, FUSE_OPT_KEY.DISCARD) >>,
     \* 3: two key entries for "-k", a key entry with a space separator
     << OptEntry(<<Ch.dash, Ch.k>>, NoOffset, FUSE_OPT_KEY.KEEP),
        OptEntry(<<Ch.dash, Ch.k>>, NoOffset, 2),
        OptEntry(<<Ch.dash, Ch.b, Ch.sp>>, NoOffset, FUSE_OPT_KEY.KEEP),
        OptEntry(<<Ch.u>>, NoOffset, FUSE_OPT_KEY.DISCARD) >>,
     \* 4: groupname_opt_spec[] of the declarative layer
     OPTDOC_SPEC_GOPT_OPTPARAM(OptdocGroup.param.key, <<Ch.s>>,
                               <<Ch.pct, Ch.d>>, OptdocGroup.param.member)
       \o OPTDOC_SPEC_GOPT_OPTBOOL(OptdocGroup.bool.key_y,
                                   OptdocGroup.bool.key_n,
                                   <<Ch.x>>, <<Ch.u>>),
     \* 5: two consecutive entries with the template "-b %d"
     << OptEntry(<<Ch.dash, Ch.b, Ch.sp, Ch.pct, Ch.d>>, 0, 0),
        OptEntry(<<Ch.dash, Ch.b, Ch.sp, Ch.pct, Ch.d>>, 1, 0) >>,
     \* 6: a destination entry and a key entry for the stem "-b"
     << OptEntry(<<Ch.dash, Ch.b, Ch.sp, Ch.pct, Ch.d>>, 1, 0),
        OptEntry(<<Ch.dash, Ch.b, Ch.sp>>, NoOffset, 1) >>,
     \* 7: entries with a destination whose value is one of the special
     \*    keys or a callback key; "-x" has two of them; one key entry
     << OptEntry(<<Ch.dash, Ch.d>>, 0, FUSE_OPT_KEY.KEEP),
        OptEntry(<<Ch.dash, Ch.x>>, 0, FUSE_OPT_KEY.DISCARD),
        OptEntry(<<Ch.dash, Ch.x>>, 1, 1),
        OptEntry(<<Ch.dash, Ch.b, Ch.sp, Ch.pct, Ch.d>>, 1,
                 FUSE_OPT_KEY.KEEP),
        OptEntry(<<Ch.d>>, 0, FUSE_OPT_KEY.KEEP),
        OptEntry(<<Ch.dash, Ch.k>>, NoOffset, 1) >> >>

(* ---------------------------------------------------------------------- *)
(* "-o" group decoding (the while loop of process_one)                     *)
(* ---------------------------------------------------------------------- *)

\* an escape test that takes any octal digit in the first place
IsOctalEscape_any_first_digit(t) ==
  /\ At(t, 0) >= Ch.zero /\ At(t, 0) <= Ch.seven
  /\ At(t, 1) >= Ch.zero /\ At(t, 1) <= Ch.seven
  /\ At(t, 2) >= Ch.zero /\ At(t, 2) <= Ch.seven

IsOctalEscape(t) ==
  /\ At(t, 0) >= Ch.zero /\ At(t, 0) <= Ch.three
  /\ At(t, 1) >= Ch.zero /\ At(t, 1) <= Ch.seven
  /\ At(t, 2) >= Ch.zero /\ At(t, 2) <= Ch.seven

OctalByte(t) ==
  ((At(t, 0) - Ch.zero) * 64 + (At(t, 1) - Ch.zero) * 8
     + (At(t, 2) - Ch.zero)) % 256

\* run the loop from s until the next call of process_gopt: buf is what was
\* written through d, rest is s after the final s++, end is the loop flag
RECURSIVE DecodeSub(_, _)
DecodeSub(s, d) ==
  IF s = <<>> THEN [buf |-> d, rest |-> <<>>, end |-> TRUE]
  ELSE IF Head(s) = Ch.comma THEN [buf |-> d, rest |-> Tail(s), end |-> FALSE]
  ELSE IF Head(s) = Ch.bsl /\ At(s, 1) # Ch.nul
  THEN LET t == Tail(s)
       IN  IF IsOctalEscape(t)
           THEN DecodeSub(From(t, 3), Append(d, OctalByte(t)))
           ELSE DecodeSub(Tail(t), Append(d, Head(t)))
  ELSE DecodeSub(Tail(s), Append(d, Head(s)))

(* ---------------------------------------------------------------------- *)
(* parameter conversion                                                    *)
(* ---------------------------------------------------------------------- *)

isspace(c) == c = Ch.sp \/ (c >= 9 /\ c <= 13)
isdigit(c) == c >= Ch.zero /\ c <= Ch.nine

RECURSIVE SkipSpace(_)
SkipSpace(str) ==
  IF str # <<>> /\ isspace(Head(str)) THEN SkipSpace(Tail(str)) ELSE str

RECURSIVE ScanDigits(_, _)
ScanDigits(str, acc) ==
  IF str # <<>> /\ isdigit(Head(str))
  THEN ScanDigits(Tail(str), acc * 10 + (Head(str) - Ch.zero))
  ELSE acc

\* sscanf(param, "%d", var): n is the return value, val what is stored
sscanf_d(param) ==
  LET t    == SkipSpace(param)
      neg  == At(t, 0) = Ch.dash
      body == IF At(t, 0) = Ch.dash \/ At(t, 0) = Ch.plus THEN Tail(t) ELSE t
  IN  IF isdigit(At(body, 0))
      THEN [n |-> 1, val |-> IF neg THEN 0 - ScanDigits(body, 0)
                             ELSE ScanDigits(body, 0)]
      ELSE [n |-> 0, val |-> 0]

\* process_opt_param: ok is whether strdup succeeds.  Tables use the
\* conversions %s and %d.
process_opt_param(old, format, param, ok) ==
  IF At(format, 1) = Ch.s
  THEN IF ok THEN [res |-> 0, val |-> StrVal(param), cause |-> "none"]
       ELSE [res |-> -1, val |-> old, cause |-> "alloc"]
  ELSE IF sscanf_d(param).n # 1
       THEN [res |-> -1, val |-> old, cause |-> "invalid"]
       ELSE [res |-> 0, val |-> IntVal(sscanf_d(param).val), cause |-> "none"]

(* ---------------------------------------------------------------------- *)
(* call_proc and process_opt                                               *)
(* ---------------------------------------------------------------------- *)

DispatchEvent(arg, key, typ, called, r, added) ==
  [arg |-> arg, key |-> key, typ |-> typ, called |-> called,
   ret |-> IF called THEN r ELSE 0, added |-> added]

\* call_proc with the FUSE_OPT_KEY_DISCARD test left out
call_proc_no_discard(c, arg, key, typ, r0, ok) ==
  LET r == proc_call(c.in_proc, <<>>, key, r0).ret
      called == key # FUSE_OPT_KEY.KEEP /\ c.in_proc # "null"
  IN  IF called /\ (r = -1 \/ r = 0)
      THEN [res |-> r, ctx |-> c,
            cause |-> IF r = -1 THEN "abort" ELSE "none",
            ev |-> DispatchEvent(arg, key, typ, TRUE, r, FALSE)]
      ELSE IF ~ok
      THEN [res |-> -1, ctx |-> c, cause |-> "alloc",
            ev |-> DispatchEvent(arg, key, typ, called, r, FALSE)]
      ELSE [res |-> 0,
            ctx |-> IF typ = GOPT_OPTION
                    THEN [c EXCEPT !.tmp_opts = add_opt_common(@, arg, TRUE)]
                    ELSE [c EXCEPT !.out_args = fuse_opt_add_arg(@, arg)],
            cause |-> "none",
            ev |-> DispatchEvent(arg, key, typ, called, r, TRUE)]

\* call_proc(ctx, arg, key, typ).  r is what the user callback returns if it
\* is invoked, ok whether the allocation of the keep path succeeds.
\* The result holds the return value, the context afterwards and the event
\* recorded for the history.
call_proc(c, arg, key, typ, r0, ok) ==
  LET r == proc_call(c.in_proc, <<>>, key, r0).ret
      called == key # FUSE_OPT_KEY.DISCARD /\ key # FUSE_OPT_KEY.KEEP
                  /\ c.in_proc # "null"
  IN  IF key = FUSE_OPT_KEY.DISCARD
      THEN [res |-> 0, ctx |-> c, cause |-> "none",
            ev |-> DispatchEvent(arg, key, typ, FALSE, r, FALSE)]
      ELSE IF called /\ (r = -1 \/ r = 0)
      THEN [res |-> r, ctx |-> c,
            cause |-> IF r = -1 THEN "abort" ELSE "none",
            ev |-> DispatchEvent(arg, key, typ, TRUE, r, FALSE)]
      ELSE IF ~ok
      THEN [res |-> -1, ctx |-> c, cause |-> "alloc",
            ev |-> DispatchEvent(arg, key, typ, called, r, FALSE)]
      ELSE [res |-> 0,
            ctx |-> IF typ = GOPT_OPTION
                    THEN [c EXCEPT !.tmp_opts = add_opt_common(@, arg, TRUE)]
                    ELSE [c EXCEPT !.out_args = fuse_opt_add_arg(@, arg)],
            cause |-> "none",
            ev |-> DispatchEvent(arg, key, typ, called, r, TRUE)]

\* param of process_opt: arg + sep, one further for a "=" separator
opt_param(templ, sep, arg) ==
  From(arg, IF At(templ, sep) = Ch.eq THEN sep + 1 ELSE sep)

\* process_opt storing opt->value into the other member of the record
process_opt_wrong_field(c, dat, optspec, sep, arg, typ, r, ok) ==
  IF optspec.offset = NoOffset
  THEN LET o == call_proc(c, arg, optspec.value, typ, r, ok)
       IN  [res |-> IF o.res = -1 THEN -1 ELSE 0, ctx |-> o.ctx,
            data |-> IF o.ev.called
                     THEN proc_call(c.in_proc, dat, optspec.value, r).data
                     ELSE dat,
            cause |-> o.cause, evs |-> <<o.ev>>,
            wrs |-> <<>>]
  ELSE IF sep # 0 /\ At(optspec.templ, sep + 1) # Ch.nul
  THEN LET param == opt_param(optspec.templ, sep, arg)
           cv    == process_opt_param(dat[optspec.offset],
                                      From(optspec.templ, sep + 1), param, ok)
       IN  [res |-> cv.res, ctx |-> c,
            data |-> [dat EXCEPT ![optspec.offset] = cv.val],
            cause |-> cv.cause, evs |-> <<>>,
            wrs |-> IF cv.res = 0 THEN <<optspec.offset>> ELSE <<>>]
  ELSE [res |-> 0, ctx |-> c,
        data |-> [dat EXCEPT ![1 - optspec.offset] = IntVal(optspec.value)],
        cause |-> "none", evs |-> <<>>, wrs |-> <<optspec.offset>>]

\* process_opt(ctx, optspec, sep, arg, typ) on the data record dat
\* a process_opt that hands an entry whose value is FUSE_OPT_KEY_KEEP to
\* call_proc even when the entry has a destination
process_opt_keeps_by_value(c, dat, optspec, sep, arg, typ, r, ok) ==
  IF optspec.offset = NoOffset \/ optspec.value = FUSE_OPT_KEY.KEEP
  THEN LET o == call_proc(c, arg, optspec.value, typ, r, ok)
       IN  [res |-> IF o.res = -1 THEN -1 ELSE 0, ctx |-> o.ctx,
            data |-> IF o.ev.called
                     THEN proc_call(c.in_proc, dat, optspec.value, r).data
                     ELSE dat,
            cause |-> o.cause, evs |-> <<o.ev>>,
            wrs |-> <<>>]
  ELSE IF sep # 0 /\ At(optspec.templ, sep + 1) # Ch.nul
  THEN LET param == opt_param(optspec.templ, sep, arg)
           cv    == process_opt_param(dat[optspec.offset],
                                      From(optspec.templ, sep + 1), param, ok)
       IN  [res |-> cv.res, ctx |-> c,
            data |-> [dat EXCEPT ![optspec.offset] = cv.val],
            cause |-> cv.cause, evs |-> <<>>,
            wrs |-> IF cv.res = 0 THEN <<optspec.offset>> ELSE <<>>]
  ELSE [res |-> 0, ctx |-> c,
        data |-> [dat EXCEPT ![optspec.offset] = IntVal(optspec.value)],
        cause |-> "none", evs |-> <<>>, wrs |-> <<optspec.offset>>]

process_opt(c, dat, optspec, sep, arg, typ, r, ok) ==
  IF optspec.offset = NoOffset
  THEN LET o == call_proc(c, arg, optspec.value, typ, r, ok)
       IN  [res |-> IF o.res = -1 THEN -1 ELSE 0, ctx |-> o.ctx,
            data |-> IF o.ev.called
                     THEN proc_call(c.in_proc, dat, optspec.value, r).data
                     ELSE dat,
            cause |-> o.cause, evs |-> <<o.ev>>,
            wrs |-> <<>>]
  ELSE IF sep # 0 /\ At(optspec.templ, sep + 1) # Ch.nul
  THEN LET param == opt_param(optspec.templ, sep, arg)
           cv    == process_opt_param(dat[optspec.offset],
                                      From(optspec.templ, sep + 1), param, ok)
       IN  [res |-> cv.res, ctx |-> c,
            data |-> [dat EXCEPT ![optspec.offset] = cv.val],
            cause |-> cv.cause, evs |-> <<>>,
            wrs |-> IF cv.res = 0 THEN <<optspec.offset>> ELSE <<>>]
  ELSE [res |-> 0, ctx |-> c,
        data |-> [dat EXCEPT ![optspec.offset] = IntVal(optspec.value)],
        cause |-> "none", evs |-> <<>>, wrs |-> <<optspec.offset>>]

(* ---------------------------------------------------------------------- *)
(* inputs                                                                  *)
(* ---------------------------------------------------------------------- *)

\* largest number of tokens after the program name
MaxArgs == 2

ProgName == <<Ch.p>>
Separator == <<Ch.dash, Ch.dash>>
GroupMarker == <<Ch.dash, Ch.o>>

\* the tokens a command line is made of:
\*   ""  --  -o  -d  -k  -x  -u  -b  5  k,x  -od  ,u
Tokens ==
  { <<>>, Separator, GroupMarker,
    <<Ch.dash, Ch.d>>, <<Ch.dash, Ch.k>>, <<Ch.dash, Ch.x>>,
    <<Ch.dash, Ch.u>>, <<Ch.dash, Ch.b>>,
    <<Ch.five>>, <<Ch.k, Ch.comma, Ch.x>>,
    <<Ch.dash, Ch.o, Ch.d>>, <<Ch.comma, Ch.u>> }

RECURSIVE TokenSeqs(_)
TokenSeqs(n) ==
  IF n = 0 THEN {<<>>}
  ELSE TokenSeqs(n - 1)
         \cup {Append(v, t) : v \in {w \in TokenSeqs(n - 1) : Len(w) = n - 1},
                              t \in Tokens}

\* an empty vector, or a program name followed by at most MaxArgs tokens
InputVectors ==
  {<<>>} \cup {<<ProgName>> \o v : v \in TokenSeqs(MaxArgs)}

\* what a user callback may return
CallbackRets == {-2, -1, 0, 1}

ProcRets(proc) ==
  IF proc = "keep" THEN {1}
  ELSE IF proc = "optdoc" THEN {-1, 1}
  ELSE CallbackRets

(* ---------------------------------------------------------------------- *)
(* state                                                                   *)
(* ---------------------------------------------------------------------- *)

VARIABLES
  args,   \* the caller's struct fuse_args
  data,   \* the caller's record (what the data pointer refers to)
  call,   \* the opts[] and proc arguments of the current call
  ctx,    \* struct fuse_opt_context
  pc,     \* where fuse_opt_parse is
  loc,    \* locals of process_one and process_gopt
  ret,    \* the return value, once pc = "done"
  hist,   \* history of the current call
  unit    \* a direct call of one of the library's functions

vars == <<args, data, call, ctx, pc, loc, ret, hist, unit>>

NullOpts == [set |-> FALSE, str |-> <<>>]
NoArgs == [argc |-> 0, argv |-> <<>>, allocated |-> FALSE]

CtxZero ==
  [in_opt |-> 1, in_proc |-> "null", in_args |-> NoArgs,
   out_args |-> <<>>, tmp_argctr |-> 0, tmp_opts |-> NullOpts,
   tmp_nonopt |-> 0]

LocZero ==
  [arg |-> <<>>, typ |-> GOPT_FLAG, opt |-> 0, sep_idx |-> 0,
   rest |-> <<>>, end |-> FALSE]

MemLive == [in |-> "live", out |-> "live", opts |-> "live"]

HistZero(a, pass, prev, prevkeep) ==
  [orig |-> a, pass |-> pass, prev |-> prev, prevkeep |-> prevkeep,
   started |-> FALSE,
   log |-> <<>>, gopts |-> <<>>, cur |-> <<>>, fired |-> <<>>,
   writes |-> <<>>,
   mem |-> MemLive, err |-> "none"]

\* no direct call
UnitZero == [op |-> "none"]

\* a caller about to call fuse_opt_parse with one of the vectors, one of the
\* tables and one of the callbacks
CallInit(vectors, tables, procs) ==
  /\ args \in {[argc |-> Len(v), argv |-> v, allocated |-> a] :
                 v \in vectors, a \in BOOLEAN}
  /\ data = [f \in Fields |-> Unset]
  /\ call \in [opts : tables, proc : procs]
  /\ ctx = CtxZero
  /\ pc = "init"
  /\ loc = LocZero
  /\ ret = 0
  /\ hist = HistZero(args, 1, <<>>, FALSE)
  /\ unit = UnitZero

\* the tables of the general passes
MainTables == {1, 2, 3}

Init ==
  CallInit(InputVectors, MainTables, {"null", "any"})

in_opt == OptTables[ctx.in_opt]

\* ctx->in_args.argv[ctx->tmp_argctr]
CurArg == ctx.in_args.argv[ctx.tmp_argctr + 1]

(* ---------------------------------------------------------------------- *)
(* fuse_opt_parse                                                          *)
(* ---------------------------------------------------------------------- *)

\* a failure path that hands the partial output to the caller
Failure_partial_output(c, h, cause) ==
  /\ pc' = "done"
  /\ ret' = -1
  /\ ctx' = c
  /\ args' = [argc |-> Len(c.out_args), argv |-> c.out_args,
              allocated |-> TRUE]
  /\ hist' = [h EXCEPT !.mem.opts = "freed", !.mem.out = "moved",
                       !.err = cause]
  /\ UNCHANGED <<call, loc>>

\* a failure path that also frees the input vector
Failure_frees_input(c, h, cause) ==
  /\ pc' = "done"
  /\ ret' = -1
  /\ ctx' = [c EXCEPT !.out_args = <<>>, !.in_args = NoArgs]
  /\ hist' = [h EXCEPT !.mem.opts = "freed", !.mem.out = "freed",
                       !.mem.in = IF c.in_args.allocated
                                  THEN "freed" ELSE "dropped",
                       !.err = cause]
  /\ UNCHANGED <<args, call, loc>>

\* the failure: label, reached with context c and history h
Failure(c, h, cause) ==
  /\ pc' = "done"
  /\ ret' = -1
  /\ ctx' = [c EXCEPT !.out_args = <<>>]
  /\ hist' = [h EXCEPT !.mem.opts = "freed", !.mem.out = "freed",
                       !.err = cause]
  /\ UNCHANGED <<args, call, loc>>

\* a return to the main loop that steps over two tokens
GoptReturn_double_advance(c, h) ==
  /\ IF loc.typ = GOPT_OPTION /\ ~loc.end
     THEN pc' = "group" /\ ctx' = c
     ELSE pc' = "loop" /\ ctx' = [c EXCEPT !.tmp_argctr = @ + 2]
  /\ hist' = h
  /\ UNCHANGED <<args, call, ret, loc>>

\* process_gopt has returned 0: back in the group loop of process_one, or,
\* when process_one returns, at ctx->tmp_argctr++ of the main loop
GoptReturn(c, h) ==
  /\ IF loc.typ = GOPT_OPTION /\ ~loc.end
     THEN pc' = "group" /\ ctx' = c
     ELSE pc' = "loop" /\ ctx' = [c EXCEPT !.tmp_argctr = @ + 1]
  /\ hist' = h
  /\ UNCHANGED <<args, call, ret, loc>>

\* entry of fuse_opt_parse up to the while loop
Start ==
  /\ UNCHANGED unit
  /\ pc = "init"
  /\ IF args.argc = 0
     THEN /\ pc' = "done"
          /\ ret' = 0
          /\ UNCHANGED <<args, data, call, ctx, loc, hist>>
     ELSE \E ok \in BOOLEAN :
            LET c == [CtxZero EXCEPT !.in_opt = call.opts,
                                     !.in_proc = call.proc,
                                     !.in_args = args]
                h == [hist EXCEPT !.started = TRUE]
            IN  /\ UNCHANGED data
                /\ IF ~ok
                   THEN Failure(c, h, "alloc")
                   ELSE /\ ctx' = [c EXCEPT
                                     !.out_args =
                                        fuse_opt_add_arg(@, args.argv[1]),
                                     !.tmp_argctr = 1]
                        /\ pc' = "loop"
                        /\ hist' = h
                        /\ UNCHANGED <<args, call, loc, ret>>

InLoop ==
  pc = "loop" /\ ctx.tmp_argctr < ctx.in_args.argc

\* the positional test without ctx->tmp_nonopt
IsPositional_ignores_region == At(CurArg, 0) # Ch.dash

IsPositional == ctx.tmp_nonopt # 0 \/ At(CurArg, 0) # Ch.dash
\* a group test that takes only "-o" with an inline value
IsGroup_needs_inline ==
  ~IsPositional /\ At(CurArg, 1) = Ch.o /\ At(CurArg, 2) # Ch.nul

IsGroup == ~IsPositional /\ At(CurArg, 1) = Ch.o
IsSeparator ==
  ~IsPositional /\ ~IsGroup /\ At(CurArg, 1) = Ch.dash
    /\ At(CurArg, 2) = Ch.nul
IsFlag == ~IsPositional /\ ~IsGroup /\ ~IsSeparator

\* process_one, positional argument
Positional ==
  /\ UNCHANGED unit
  /\ InLoop /\ IsPositional
  /\ \E r \in ProcRets(ctx.in_proc), ok \in BOOLEAN :
       LET o == call_proc(ctx, CurArg, FUSE_OPT_KEY.NONOPT, GOPT_FLAG, r, ok)
           h == [hist EXCEPT !.log = Append(@, o.ev)]
       IN  /\ UNCHANGED data
           /\ IF o.res = -1
              THEN Failure(o.ctx, h, o.cause)
              ELSE /\ ctx' = [o.ctx EXCEPT !.tmp_argctr = @ + 1]
                   /\ hist' = h
                   /\ UNCHANGED <<args, call, pc, loc, ret>>

\* process_one, "-o optiongroup": up to the start of the decoding loop
GroupOpen ==
  /\ UNCHANGED unit
  /\ InLoop /\ IsGroup
  /\ UNCHANGED data
  /\ IF At(CurArg, 2) = Ch.nul /\ ~(ctx.tmp_argctr + 1 < ctx.in_args.argc)
     THEN Failure(ctx, hist, "missing")
     ELSE \E ok \in BOOLEAN :
            LET inl  == At(CurArg, 2) # Ch.nul
                c    == IF inl THEN ctx
                        ELSE [ctx EXCEPT !.tmp_argctr = @ + 1]
                opts == IF inl THEN From(CurArg, 2)
                        ELSE c.in_args.argv[c.tmp_argctr + 1]
            IN  IF ~ok
                THEN Failure(c, hist, "alloc")
                ELSE /\ ctx' = c
                     /\ loc' = [LocZero EXCEPT !.typ = GOPT_OPTION,
                                               !.rest = opts]
                     /\ pc' = "group"
                     /\ UNCHANGED <<args, call, ret, hist>>

\* a group handed to process_gopt whole, neither split nor unescaped
GroupStep_whole_value ==
  /\ UNCHANGED unit
  /\ pc = "group"
  /\ loc' = [loc EXCEPT !.arg = loc.rest, !.rest = <<>>, !.end = TRUE]
  /\ pc' = "gopt"
  /\ UNCHANGED <<args, data, call, ctx, ret, hist>>

\* process_one, the decoding loop up to the next call of process_gopt
GroupStep ==
  /\ UNCHANGED unit
  /\ pc = "group"
  /\ LET dec == DecodeSub(loc.rest, <<>>)
     IN  loc' = [loc EXCEPT !.arg = CStr(dec.buf), !.rest = dec.rest,
                            !.end = dec.end]
  /\ pc' = "gopt"
  /\ UNCHANGED <<args, data, call, ctx, ret, hist>>

\* process_one, "--"
SeparatorArg ==
  /\ UNCHANGED unit
  /\ InLoop /\ IsSeparator
  /\ UNCHANGED data
  /\ \E ok \in BOOLEAN :
       IF ~ok
       THEN Failure(ctx, hist, "alloc")
       ELSE /\ ctx' = [ctx EXCEPT
                         !.out_args = fuse_opt_add_arg(@, CurArg),
                         !.tmp_nonopt = Len(ctx.out_args) + 1,
                         !.tmp_argctr = @ + 1]
            /\ UNCHANGED <<args, call, pc, loc, ret, hist>>

\* process_one, "--flag": up to the call of process_gopt
FlagArg ==
  /\ UNCHANGED unit
  /\ InLoop /\ IsFlag
  /\ loc' = [LocZero EXCEPT !.arg = CurArg, !.typ = GOPT_FLAG]
  /\ pc' = "gopt"
  /\ UNCHANGED <<args, data, call, ctx, ret, hist>>

\* process_gopt, no entry matches
GoptUnknown ==
  /\ UNCHANGED unit
  /\ pc = "gopt"
  /\ find_opt(in_opt, 1, loc.arg).opt = 0
  /\ UNCHANGED data
  /\ \E r \in ProcRets(ctx.in_proc), ok \in BOOLEAN :
       LET o == call_proc(ctx, loc.arg, FUSE_OPT_KEY.OPT, loc.typ, r, ok)
           h == [hist EXCEPT !.log = Append(@, o.ev), !.cur = loc.arg,
                             !.fired = <<>>,
                             !.gopts = Append(@, [arg |-> loc.arg,
                                                  typ |-> loc.typ])]
       IN  IF o.res = -1
           THEN Failure(o.ctx, h, o.cause)
           ELSE GoptReturn(o.ctx, h)

\* process_gopt, the first lookup finds an entry
GoptLookup ==
  /\ UNCHANGED unit
  /\ pc = "gopt"
  /\ find_opt(in_opt, 1, loc.arg).opt # 0
  /\ LET f == find_opt(in_opt, 1, loc.arg)
     IN  loc' = [loc EXCEPT !.opt = f.opt, !.sep_idx = f.sep_idx]
  /\ pc' = "entry"
  /\ hist' = [hist EXCEPT !.cur = loc.arg, !.fired = <<>>,
                           !.gopts = Append(@, [arg |-> loc.arg,
                                                typ |-> loc.typ])]
  /\ UNCHANGED <<args, data, call, ctx, ret>>

\* mergedarg built with a "=" between key and val
mergedarg_with_eq(key, sep, val) ==
  SubSeq(key, 1, sep) \o <<Ch.eq>> \o val

\* the merged argument of process_gopt: memcpy(mergedarg, key, sep) and
\* strcpy(mergedarg + sep, val)
mergedarg(key, sep, val) ==
  SubSeq(key, 1, sep) \o val

\* process_gopt, one iteration of the for loop, with the lookup of the next
\* entry
GoptEntry ==
  /\ UNCHANGED unit
  /\ pc = "entry"
  /\ LET opt     == in_opt[loc.opt]
         sep     == loc.sep_idx
         twoargs == sep # 0 /\ At(opt.templ, sep) = Ch.sp
                      /\ At(loc.arg, sep) = Ch.nul
     IN  IF twoargs /\ ctx.tmp_argctr + 1 >= ctx.in_args.argc
         THEN UNCHANGED data /\ Failure(ctx, hist, "missing")
         ELSE \E r \in ProcRets(ctx.in_proc), okm \in BOOLEAN,
                 ok \in BOOLEAN :
                LET c   == IF twoargs
                           THEN [ctx EXCEPT !.tmp_argctr = @ + 1]
                           ELSE ctx
                    val == c.in_args.argv[c.tmp_argctr + 1]
                    arg == IF twoargs
                           THEN mergedarg(loc.arg, sep, val)
                           ELSE loc.arg
                    po  == process_opt(c, data, opt, sep, arg, loc.typ, r, ok)
                    h   == [hist EXCEPT !.log = @ \o po.evs,
                                        !.fired = Append(@, loc.opt),
                                        !.writes = @ \o po.wrs]
                    nxt == find_opt(in_opt, loc.opt + 1, loc.arg)
                IN  IF twoargs /\ ~okm
                    THEN UNCHANGED data /\ Failure(c, hist, "alloc")
                    ELSE /\ data' = po.data
                         /\ IF po.res = -1
                            THEN Failure(po.ctx, h, po.cause)
                            ELSE IF nxt.opt # 0
                            THEN /\ loc' = [loc EXCEPT
                                              !.opt = nxt.opt,
                                              !.sep_idx = nxt.sep_idx]
                                 /\ ctx' = po.ctx
                                 /\ hist' = h
                                 /\ UNCHANGED <<args, call, pc, ret>>
                            ELSE GoptReturn(po.ctx, h)

\* after the while loop: the merged "-o", the trailing "--", success:
Finalize ==
  /\ UNCHANGED unit
  /\ pc = "loop" /\ ~(ctx.tmp_argctr < ctx.in_args.argc)
  /\ UNCHANGED data
  /\ \E ok1 \in BOOLEAN, ok2 \in BOOLEAN :
       IF ctx.tmp_opts.set /\ ~(ok1 /\ ok2)
       THEN Failure(ctx, hist, "alloc")
       ELSE LET o1 == IF ctx.tmp_opts.set
                      THEN fuse_opt_insert_arg(
                             fuse_opt_insert_arg(ctx.out_args, 1, GroupMarker),
                             2, ctx.tmp_opts.str)
                      ELSE ctx.out_args
                o2 == IF ctx.tmp_nonopt # 0 /\ ctx.tmp_nonopt = Len(o1)
                           /\ o1[Len(o1)] = Separator
                      THEN SubSeq(o1, 1, Len(o1) - 1)
                      ELSE o1
            IN  /\ args' = [argc |-> Len(o2), argv |-> o2, allocated |-> TRUE]
                /\ ctx' = [ctx EXCEPT !.out_args = o2, !.in_args = NoArgs]
                /\ hist' = [hist EXCEPT
                              !.mem.opts = "freed",
                              !.mem.out = "moved",
                              !.mem.in = IF ctx.in_args.allocated
                                         THEN "freed" ELSE "dropped"]
                /\ pc' = "done"
                /\ ret' = 0
                /\ UNCHANGED <<call, loc>>

\* the caller parses the result of a successful pass again, with the same
\* table and record and a callback that keeps everything it is offered
Reparse ==
  /\ UNCHANGED unit
  /\ pc = "done" /\ ret = 0 /\ hist.pass = 1 /\ hist.started
  /\ call' = [call EXCEPT !.proc = "keep"]
  /\ hist' = HistZero(args, 2, args.argv,
                      \A i \in 1..Len(hist.log) :
                        hist.log[i].called => hist.log[i].ret = 1)
  /\ ctx' = CtxZero
  /\ loc' = LocZero
  /\ pc' = "init"
  /\ UNCHANGED <<args, data, ret>>

Next ==
  \/ Start
  \/ Positional
  \/ GroupOpen
  \/ GroupStep
  \/ SeparatorArg
  \/ FlagArg
  \/ GoptUnknown
  \/ GoptLookup
  \/ GoptEntry
  \/ Finalize
  \/ Reparse

Spec == Init /\ [][Next]_vars


(* ---------------------------------------------------------------------- *)
(* passes over group-option arguments                                      *)
(* ---------------------------------------------------------------------- *)

\* longest group value made of letters, commas and backslashes
MaxValueLen == 4

\* group values: every string of "k", "," and "\" up to MaxValueLen, and
\* "k\,x,u"
GroupValues ==
  Strings({Ch.k, Ch.comma, Ch.bsl}, MaxValueLen)
    \cup { <<Ch.k, Ch.bsl, Ch.comma, Ch.x, Ch.comma, Ch.u>> }

OctalDigits == {Ch.zero, Ch.one, Ch.three, Ch.four, Ch.five, Ch.seven}

\* group values with a backslash and three octal digits: alone, after "k",
\* before "k" and before ",k"
OctalValues ==
  { pre \o <<Ch.bsl, d1, d2, d3>> \o post :
      pre \in {<<>>, <<Ch.k>>},
      d1 \in OctalDigits, d2 \in OctalDigits, d3 \in OctalDigits,
      post \in {<<>>, <<Ch.k>>, <<Ch.comma, Ch.k>>} }

\* vectors whose first token is a group-option argument: "-ovalue" or
\* "-o" "value", for the short values also followed by "5", "--" or "-k"
GroupVectors ==
  {<<ProgName, GroupMarker \o v>> : v \in GroupValues \cup OctalValues}
    \cup {<<ProgName, GroupMarker, v>> : v \in GroupValues}
    \cup {<<ProgName, GroupMarker \o v, t>> :
            v \in {w \in GroupValues : Len(w) <= 1},
            t \in {<<Ch.five>>, Separator, <<Ch.dash, Ch.k>>}}

GroupInit ==
  CallInit(GroupVectors, {1, 2}, {"keep"})

GroupSpec == GroupInit /\ [][Next]_vars

RECURSIVE SeqsOf(_, _)
SeqsOf(tokens, n) ==
  IF n = 0 THEN {<<>>}
  ELSE SeqsOf(tokens, n - 1)
         \cup {Append(v, t) :
                 v \in {w \in SeqsOf(tokens, n - 1) : Len(w) = n - 1},
                 t \in tokens}

(* ---------------------------------------------------------------------- *)
(* a running caller                                                        *)
(* ---------------------------------------------------------------------- *)

\* the tokens of the command lines of the running caller:
\*   --  -o  -b  -k  5  k,x
LiveTokens ==
  { Separator, GroupMarker, <<Ch.dash, Ch.b>>, <<Ch.dash, Ch.k>>,
    <<Ch.five>>, <<Ch.k, Ch.comma, Ch.x>> }

LiveVectors ==
  {<<>>} \cup {<<ProgName>> \o v : v \in SeqsOf(LiveTokens, MaxArgs)}

\* a program that has not called fuse_opt_parse yet
LiveInit ==
  /\ args = NoArgs
  /\ data = [f \in Fields |-> Unset]
  /\ call = [opts |-> 1, proc |-> "null"]
  /\ ctx = CtxZero
  /\ pc = "idle"
  /\ loc = LocZero
  /\ ret = 0
  /\ hist = HistZero(NoArgs, 1, <<>>, FALSE)
  /\ unit = UnitZero

\* the program calls fuse_opt_parse(args, data, opts, proc)
Enter ==
  /\ pc = "idle"
  /\ \E v \in LiveVectors, a \in BOOLEAN, t \in MainTables,
        p \in {"null", "any"} :
       /\ args' = [argc |-> Len(v), argv |-> v, allocated |-> a]
       /\ call' = [opts |-> t, proc |-> p]
       /\ hist' = HistZero(args', 1, <<>>, FALSE)
  /\ pc' = "init"
  /\ UNCHANGED <<data, ctx, loc, ret, unit>>

LiveNext ==
  \/ Enter
  \/ Next

\* fuse_opt_parse is sequential code run by the caller's thread, and the
\* callbacks return: a step that can be taken is taken
LiveSpec == LiveInit /\ [][LiveNext]_vars /\ WF_vars(LiveNext)

(* ---------------------------------------------------------------------- *)
(* passes over an option that several entries match                        *)
(* ---------------------------------------------------------------------- *)

\* the tokens of a command line for the tables 5 and 6:
\*   --  -o  -b  -k  5  7  -b5
ValueTokens ==
  { Separator, GroupMarker, <<Ch.dash, Ch.b>>, <<Ch.dash, Ch.k>>,
    <<Ch.five>>, <<Ch.seven>>, <<Ch.dash, Ch.b, Ch.five>> }

ValueVectors ==
  {<<ProgName>> \o v : v \in SeqsOf(ValueTokens, MaxArgs)}

ValueInit ==
  CallInit(ValueVectors, {5, 6}, {"any"})

ValueSpec == ValueInit /\ [][Next]_vars

(* ---------------------------------------------------------------------- *)
(* passes over entries that have a destination                             *)
(* ---------------------------------------------------------------------- *)

\* the tokens of a command line for table 7
DestTokens ==
  { Separator, GroupMarker, <<Ch.dash, Ch.d>>, <<Ch.dash, Ch.x>>,
    <<Ch.dash, Ch.b>>, <<Ch.five>>, <<Ch.dash, Ch.k>>,
    <<Ch.d, Ch.comma, Ch.u>> }

DestVectors ==
  {<<ProgName>> \o v : v \in SeqsOf(DestTokens, MaxArgs)}

DestInit ==
  CallInit(DestVectors, {7}, {"any"})

DestSpec == DestInit /\ [][Next]_vars

(* ---------------------------------------------------------------------- *)
(* passes of the declarative layer                                         *)
(* ---------------------------------------------------------------------- *)

\* the tokens of a command line for the option group OptdocGroup:
\*   --  -o  5  -u  s=5  -os=7,u  -oxu  -os=,u
OptdocTokens ==
  { Separator, GroupMarker, <<Ch.five>>, <<Ch.dash, Ch.u>>,
    <<Ch.s, Ch.eq, Ch.five>>,
    GroupMarker \o <<Ch.s, Ch.eq, Ch.seven, Ch.comma, Ch.u>>,
    GroupMarker \o <<Ch.x, Ch.u>>,
    GroupMarker \o <<Ch.s, Ch.eq, Ch.comma, Ch.u>> }

OptdocVectors ==
  {<<ProgName>> \o v : v \in SeqsOf(OptdocTokens, MaxArgs)}

\* fuse_opt_parse(args, data, groupname_opt_spec, groupname_opt_proc)
OptdocInit ==
  CallInit(OptdocVectors, {4}, {"optdoc"})

OptdocSpec == OptdocInit /\ [][Next]_vars

(* ---------------------------------------------------------------------- *)
(* direct calls of the library's functions                                 *)
(* ---------------------------------------------------------------------- *)

\* longest template and longest argument of a direct call of the matcher
MaxTemplLen == 4
MaxArgLen == 3

\* templates: every string of "k", "=", " " and "%" up to MaxTemplLen, and
\* "k=%d", "k %d"
Templates ==
  Strings({Ch.k, Ch.eq, Ch.sp, Ch.pct}, MaxTemplLen)
    \cup { <<Ch.k, Ch.eq, Ch.pct, Ch.d>>, <<Ch.k, Ch.sp, Ch.pct, Ch.d>> }

\* arguments: every string of "k", "=" and " " up to MaxArgLen, and
\* "k=5", "kx=5", "k5", "k=%d"
Arguments ==
  Strings({Ch.k, Ch.eq, Ch.sp}, MaxArgLen)
    \cup { <<Ch.k, Ch.eq, Ch.five>>, <<Ch.k, Ch.x, Ch.eq, Ch.five>>,
           <<Ch.k, Ch.five>>, <<Ch.k, Ch.eq, Ch.pct, Ch.d>> }

\* find_opt on a table with the one template templ, for arg
MatchCalls ==
  [op : {"match_template"}, templ : Templates, arg : Arguments,
   done : {FALSE}, out : {[match |-> FALSE, sepidx |-> 0]},
   param : {<<>>}]

\* largest argc of a vector handed to fuse_opt_insert_arg
MaxArgc == 3

\* the structures fuse_opt_insert_arg is called on: FUSE_ARGS_INIT(0, NULL)
\* and allocated vectors of up to MaxArgc of the strings "p", "k", "u" with
\* their terminator (the assert of fuse_opt_add_arg excludes the others)
ArgStructs ==
  {NoArgs}
    \cup {[argc |-> Len(v), argv |-> Append(v, NullPtr), allocated |-> TRUE] :
            v \in Strings({<<Ch.p>>, <<Ch.k>>, <<Ch.u>>}, MaxArgc)}

\* fuse_opt_insert_arg(args, pos, arg) with 0 <= pos <= args->argc
InsertCalls ==
  LET calls == {[op |-> "insert_arg", args |-> a, pos |-> pos, arg |-> arg,
                 done |-> FALSE, res |-> 0, out |-> a] :
                  a \in ArgStructs, pos \in 0..MaxArgc,
                  arg \in {<<Ch.x>>, <<>>}}
  IN  {c \in calls : c.pos <= c.args.argc}

UnitCalls == MatchCalls \cup InsertCalls

\* a program about to make one direct call
UnitInit ==
  /\ unit \in UnitCalls
  /\ args = NoArgs
  /\ data = [f \in Fields |-> Unset]
  /\ call = [opts |-> 1, proc |-> "null"]
  /\ ctx = CtxZero
  /\ pc = "unit"
  /\ loc = LocZero
  /\ ret = 0
  /\ hist = HistZero(args, 1, <<>>, FALSE)

\* match_template(templ, arg, &sep_idx) and, on a match at a separator, the
\* param that process_opt takes from arg
CallMatchTemplate ==
  /\ unit.op = "match_template" /\ ~unit.done
  /\ LET m == match_template(unit.templ, unit.arg)
     IN  unit' = [unit EXCEPT
                    !.done = TRUE,
                    !.out = m,
                    !.param = IF m.match /\ m.sepidx # 0
                              THEN opt_param(unit.templ, m.sepidx, unit.arg)
                              ELSE <<>>]
  /\ UNCHANGED <<args, data, call, ctx, pc, loc, ret, hist>>

\* fuse_opt_insert_arg(args, pos, arg)
CallInsertArg ==
  /\ unit.op = "insert_arg" /\ ~unit.done
  /\ \E okdup \in BOOLEAN, okre \in BOOLEAN :
       LET o == fuse_opt_insert_arg_common(unit.args, unit.pos, unit.arg,
                                           okdup, okre)
       IN  unit' = [unit EXCEPT !.done = TRUE, !.res = o.res,
                                !.out = o.args]
  /\ UNCHANGED <<args, data, call, ctx, pc, loc, ret, hist>>

UnitNext ==
  \/ CallMatchTemplate
  \/ CallInsertArg

UnitSpec == UnitInit /\ [][UnitNext]_vars

(* ---------------------------------------------------------------------- *)
(* properties                                                              *)
(* ---------------------------------------------------------------------- *)

IsPrefix(a, b) ==
  Len(a) <= Len(b) /\ SubSeq(b, 1, Len(a)) = a

Range(f) == {f[i] : i \in DOMAIN f}

\* all the sub-options a group value decodes to
RECURSIVE DecodeAll(_)
DecodeAll(str) ==
  LET dec == DecodeSub(str, <<>>)
  IN  IF dec.end THEN <<CStr(dec.buf)>>
      ELSE <<CStr(dec.buf)>> \o DecodeAll(dec.rest)

Finished == pc = "done" /\ hist.started
Succeeded == Finished /\ ret = 0

\* a dispatched gopt is in the vector argv: a flag as a token of its own, a
\* sub-option as a member of the merged group after the program name
InOutput(ev, argv) ==
  IF ev.typ = GOPT_FLAG
  THEN ev.arg \in Range(argv)
  ELSE /\ Len(argv) >= 3
       /\ argv[2] = GroupMarker
       /\ ev.arg \in Range(DecodeAll(argv[3]))

\* the step adds the gopt of event ev to the output under construction
AddsToOutput(ev) ==
  IF ev.typ = GOPT_FLAG
  THEN ctx'.out_args = Append(ctx.out_args, ev.arg)
  ELSE /\ ctx'.tmp_opts.set
       /\ ev.arg \in Range(DecodeAll(ctx'.tmp_opts.str))
       /\ ctx'.out_args = ctx.out_args

LeavesOutputAlone ==
  ctx'.out_args = ctx.out_args /\ ctx'.tmp_opts = ctx.tmp_opts

\* C1: when process_gopt dispatches a token to a matching entry without
\* destination and a callback is supplied, the keep/discard table decides:
\* DISCARD - callback not invoked, nothing added to the output; KEEP -
\* callback not invoked, token added; any other key - callback invoked,
\* nothing added when it returns 0, token added when it returns 1 (unless
\* the allocation for the addition fails, which fails the parse).  What has
\* been added stays: the output and the merged group only grow until the
\* end of the pass, and the final vector holds them.
C1_KeepDiscardTable ==
  [][ /\ (pc = "entry" /\ Len(hist'.log) = Len(hist.log) + 1) =>
           LET ev    == hist'.log[Len(hist'.log)]
               added == IF hist'.err = "alloc" THEN ret' = -1
                        ELSE AddsToOutput(ev)
           IN  /\ ev.key = FUSE_OPT_KEY.DISCARD =>
                    ~ev.called /\ LeavesOutputAlone
               /\ ev.key = FUSE_OPT_KEY.KEEP => ~ev.called /\ added
               /\ (ev.key # FUSE_OPT_KEY.DISCARD /\ ev.key # FUSE_OPT_KEY.KEEP
                     /\ ctx.in_proc # "null") =>
                    /\ ev.called
                    /\ ev.ret = 0 => LeavesOutputAlone
                    /\ ev.ret = 1 => added
      /\ (pc \in {"loop", "group", "gopt", "entry"} /\ pc' # "done") =>
           /\ IsPrefix(ctx.out_args, ctx'.out_args)
           /\ ctx.tmp_opts.set =>
                /\ ctx'.tmp_opts.set
                /\ IsPrefix(ctx.tmp_opts.str, ctx'.tmp_opts.str)
      /\ (pc = "loop" /\ pc' = "done" /\ ret' = 0) =>
           /\ \A i \in 1..Len(ctx.out_args) :
                ctx.out_args[i] # Separator =>
                  ctx.out_args[i] \in Range(args'.argv)
           /\ ctx.tmp_opts.set =>
                args'.argv[2] = GroupMarker
                  /\ args'.argv[3] = ctx.tmp_opts.str
    ]_vars

\* C1 witness: a successful pass in which one entry discarded by
\* FUSE_OPT_KEY_DISCARD and another was kept by the callback returning 1
C1_Witness ==
  /\ Succeeded
  /\ \E i, j \in 1..Len(hist.log) :
       /\ hist.log[i].key = FUSE_OPT_KEY.DISCARD
       /\ hist.log[j].key = 1 /\ hist.log[j].called
       /\ hist.log[j].ret = 1 /\ hist.log[j].added
       /\ InOutput(hist.log[j], args.argv)

\* C2: a token that matches no entry is offered with FUSE_OPT_KEY_OPT, and
\* when the callback returns keep (or there is no callback) it is present in
\* the output of the successful parse.
C2_UnknownTokenKept ==
  /\ (pc \in {"loop", "group"} /\ hist.started
        /\ find_opt(in_opt, 1, hist.cur).opt = 0 /\ hist.log # <<>>
        /\ hist.fired = <<>> /\ hist.cur # <<>>) =>
       \E i \in 1..Len(hist.log) :
         hist.log[i].arg = hist.cur /\ hist.log[i].key = FUSE_OPT_KEY.OPT
  /\ Succeeded =>
       \A i \in 1..Len(hist.log) :
         (hist.log[i].key = FUSE_OPT_KEY.OPT
            /\ (~hist.log[i].called \/ hist.log[i].ret = 1)) =>
           InOutput(hist.log[i], args.argv)

\* the same for tokens that are not the empty string: holds
C2_NonEmptyUnknownTokenKept ==
  Succeeded =>
    \A i \in 1..Len(hist.log) :
      (hist.log[i].key = FUSE_OPT_KEY.OPT /\ hist.log[i].arg # <<>>
         /\ (~hist.log[i].called \/ hist.log[i].ret = 1)) =>
        InOutput(hist.log[i], args.argv)

\* C3: once the callback has returned a negative value the parse has failed:
\* that dispatch is the last one, fuse_opt_parse returns -1 and the token was
\* not added to the output.
C3_NegativeAborts ==
  \A i \in 1..Len(hist.log) :
    (hist.log[i].called /\ hist.log[i].ret < 0) =>
      /\ i = Len(hist.log)
      /\ pc = "done" /\ ret = -1
      /\ ~hist.log[i].added

\* the same for the return value -1 only: holds
C3_MinusOneAborts ==
  \A i \in 1..Len(hist.log) :
    (hist.log[i].called /\ hist.log[i].ret = -1) =>
      /\ i = Len(hist.log)
      /\ pc = "done" /\ ret = -1
      /\ ~hist.log[i].added

\* the sub-options the pass kept, in the order of their dispatch
KeptSubopts ==
  LET evs == SelectSeq(hist.log,
                       LAMBDA ev : ev.typ = GOPT_OPTION /\ ev.added)
  IN  [i \in 1..Len(evs) |-> evs[i].arg]

\* sub-options joined by commas, each with its commas and backslashes escaped
RECURSIVE JoinEscaped(_)
JoinEscaped(subs) ==
  IF subs = <<>> THEN <<>>
  ELSE IF Len(subs) = 1 THEN EscapeOpt(subs[1], TRUE)
  ELSE EscapeOpt(subs[1], TRUE) \o <<Ch.comma>> \o JoinEscaped(Tail(subs))

\* a reading of the vector argv from position i on, by the classification
\* of process_one (nonopt: a "--" has been seen): plain are the tokens that
\* are not part of a group-option argument, subs the sub-options of the
\* group-option arguments, groups their number, missing whether a final
\* "-o" lacks its value
RECURSIVE ScanArgs(_, _, _)
ScanArgs(argv, i, nonopt) ==
  IF i > Len(argv)
  THEN [plain |-> <<>>, subs |-> <<>>, groups |-> 0, missing |-> FALSE]
  ELSE
    LET tok == argv[i]
    IN  IF nonopt \/ At(tok, 0) # Ch.dash
        THEN LET n == ScanArgs(argv, i + 1, nonopt)
             IN  [n EXCEPT !.plain = <<tok>> \o @]
        ELSE IF At(tok, 1) = Ch.o
        THEN IF At(tok, 2) # Ch.nul
             THEN LET n == ScanArgs(argv, i + 1, nonopt)
                  IN  [n EXCEPT !.subs = DecodeAll(From(tok, 2)) \o @,
                                !.groups = @ + 1]
             ELSE IF i + 1 <= Len(argv)
             THEN LET n == ScanArgs(argv, i + 2, nonopt)
                  IN  [n EXCEPT !.subs = DecodeAll(argv[i + 1]) \o @,
                                !.groups = @ + 1]
             ELSE [plain |-> <<>>, subs |-> <<>>, groups |-> 1,
                   missing |-> TRUE]
        ELSE IF At(tok, 1) = Ch.dash /\ At(tok, 2) = Ch.nul
        THEN LET n == ScanArgs(argv, i + 1, TRUE)
             IN  [n EXCEPT !.plain = <<tok>> \o @]
        ELSE LET n == ScanArgs(argv, i + 1, nonopt)
             IN  [n EXCEPT !.plain = <<tok>> \o @]

\* number of group-option arguments of a vector that starts with the
\* program name
GroupArgCount(argv) ==
  ScanArgs(argv, 2, FALSE).groups

\* C4: when -o groups contributed kept sub-options, the output of the
\* successful parse holds exactly one group-option argument, right after the
\* program name, with all kept sub-options comma-joined in input order; no
\* group-option argument is emitted before the end of the parse.
C4_Coalescing ==
  /\ (Succeeded /\ KeptSubopts # <<>>) =>
       /\ Len(args.argv) >= 3
       /\ args.argv[2] = GroupMarker
       /\ args.argv[3] = JoinEscaped(KeptSubopts)
       /\ GroupArgCount(args.argv) = 1
  /\ (hist.started /\ pc # "done") => GroupArgCount(ctx.out_args) = 0

\* the structure alone (one group, after the program name, at the end):
\* holds
C4_OneGroupAfterProgName ==
  /\ (Succeeded /\ KeptSubopts # <<>>) =>
       /\ Len(args.argv) >= 3
       /\ args.argv[2] = GroupMarker
       /\ args.argv[3] = ctx.tmp_opts.str
       /\ GroupArgCount(args.argv) = 1
  /\ (hist.started /\ pc # "done") => GroupArgCount(ctx.out_args) = 0

\* position in the final vector of the "--" that process_one appended
AppendedSeparatorPos ==
  IF ctx.tmp_opts.set THEN ctx.tmp_nonopt + 2 ELSE ctx.tmp_nonopt

\* C5: in a successful parse the "--" that was appended to the output is not
\* the last token of the final output, with or without a merged -o group.
C5_TrailingSeparatorDropped ==
  (Succeeded /\ ctx.tmp_nonopt # 0) =>
    ~(/\ Len(args.argv) = AppendedSeparatorPos
      /\ args.argv[Len(args.argv)] = Separator)

\* the same when no merged group was inserted: holds
C5_DroppedWithoutGroup ==
  (Succeeded /\ ctx.tmp_nonopt # 0 /\ ~ctx.tmp_opts.set) =>
    ~(/\ Len(args.argv) = AppendedSeparatorPos
      /\ args.argv[Len(args.argv)] = Separator)

\* C6: all or nothing.  Every fatal condition makes fuse_opt_parse return
\* -1; a failing parse has released the partial output and the merge
\* accumulator and the caller's args still is the original vector; the
\* caller's args is replaced only by the successful end of the parse, with
\* the vector produced from the whole input.
C6_AllOrNothing ==
  /\ (pc # "done" /\ hist.started) => args = hist.orig
  /\ \A i \in 1..Len(hist.log) :
       (hist.log[i].called /\ hist.log[i].ret = -1) => pc = "done" /\ ret = -1
  /\ Finished =>
       /\ ret \in {0, -1}
       /\ ret = -1 <=> hist.err # "none"
       /\ ret = -1 =>
            /\ args = hist.orig
            /\ hist.mem.in = "live"
            /\ hist.mem.out = "freed" /\ ctx.out_args = <<>>
            /\ hist.mem.opts = "freed"
       /\ ret = 0 =>
            /\ args.argv = ctx.out_args /\ args.argc = Len(ctx.out_args)
            /\ hist.mem.out = "moved"
            /\ hist.mem.opts = "freed"
            /\ ctx.tmp_argctr = hist.orig.argc

\* C6 witness: a parse that failed on a missing argument after it had kept
\* a token in the output and a sub-option in the accumulator
C6_Witness ==
  /\ Finished /\ ret = -1 /\ hist.err = "missing"
  /\ ctx.tmp_opts.set
  /\ \E i \in 1..Len(hist.log) : hist.log[i].added

EmptyTableAlwaysKeep ==
  /\ Finished
  /\ OptTables[call.opts] = <<>>
  /\ \A i \in 1..Len(hist.log) :
       hist.log[i].called => hist.log[i].ret = 1
  /\ hist.err # "alloc"

\* the merge accumulator after the sub-options subs have been added in order
RECURSIVE Accumulate(_, _)
Accumulate(opts, subs) ==
  IF subs = <<>> THEN opts
  ELSE Accumulate(add_opt_common(opts, Head(subs), TRUE), Tail(subs))

C9_Idempotence ==
  (Finished /\ hist.pass = 2 /\ hist.prevkeep /\ hist.err # "alloc") =>
    ret = 0 /\ args.argv = hist.prev

\* the entries of optspecs whose template matches arg, in table order
RECURSIVE MatchingEntries(_, _, _)
MatchingEntries(optspecs, i, arg) ==
  IF i > Len(optspecs) THEN <<>>
  ELSE (IF match_template(optspecs[i].templ, arg).match THEN <<i>> ELSE <<>>)
       \o MatchingEntries(optspecs, i + 1, arg)

CountOf(seq, x) ==
  Cardinality({i \in 1..Len(seq) : seq[i] = x})

\* C10: the entries that have fired for the current token are, in order,
\* the first entries of the table that match it, each once; the entry about
\* to fire is the next matching one; when process_gopt has returned 0 all
\* matching entries have fired.  With the pair of entries for "-d" and for
\* "d" (member 0, then key 1) a successful pass has written member 0 as
\* often as it has dispatched key 1.
C10_MultiEntryDispatch ==
  (hist.started /\ pc \in {"loop", "group", "entry", "done"}) =>
    LET m == MatchingEntries(in_opt, 1, hist.cur)
    IN  /\ IsPrefix(hist.fired, m)
        /\ pc = "entry" =>
             /\ Len(hist.fired) < Len(m)
             /\ loc.opt = m[Len(hist.fired) + 1]
        /\ (pc \in {"loop", "group"} \/ (pc = "done" /\ ret = 0)) =>
             hist.fired = m
        /\ (pc = "done" /\ ret = 0 /\ call.opts = 2) =>
             CountOf(hist.writes, 0)
               = Cardinality({i \in 1..Len(hist.log) : hist.log[i].key = 1})

\* C10 witness: both entries for one token have fired, the member is
\* written and the callback was invoked once
C10_Witness ==
  /\ hist.started /\ pc = "loop"
  /\ Len(hist.fired) = 2
  /\ hist.writes = <<0>>
  /\ Len(hist.log) = 1 /\ hist.log[1].called

(* ---------------------------------------------------------------------- *)
(* the role of every input token                                           *)
(* ---------------------------------------------------------------------- *)

Min(a, b) == IF a <= b THEN a ELSE b

Rep(x, n) == [i \in 1..n |-> x]

LastOf(seq) == seq[Len(seq)]

\* number of entries of optspecs that match arg at a space separator with
\* nothing behind it, so that process_gopt takes val from the input
ValueEntries(optspecs, arg) ==
  Cardinality({i \in 1..Len(optspecs) :
                 LET m == match_template(optspecs[i].templ, arg)
                 IN  /\ m.match /\ m.sepidx # 0
                     /\ At(optspecs[i].templ, m.sepidx) = Ch.sp
                     /\ At(arg, m.sepidx) = Ch.nul})

RECURSIVE SumValueEntries(_, _)
SumValueEntries(optspecs, subs) ==
  IF subs = <<>> THEN 0
  ELSE ValueEntries(optspecs, Head(subs))
         + SumValueEntries(optspecs, Tail(subs))

\* what the tokens argv[i], argv[i+1], .. are to a pass over argv with the
\* table optspecs that gets as far as each of them (nonopt: a "--" has been
\* seen): "positional", "group" (a group-option argument), "groupvalue"
\* (the value of a bare "-o"), "separator", "flag", or "value" (taken by an
\* entry with a space separator)
RECURSIVE Roles(_, _, _, _)
Roles(optspecs, argv, i, nonopt) ==
  IF i > Len(argv) THEN <<>>
  ELSE
    LET tok  == argv[i]
        left == Len(argv) - i
    IN  IF nonopt \/ At(tok, 0) # Ch.dash
        THEN <<"positional">> \o Roles(optspecs, argv, i + 1, nonopt)
        ELSE IF At(tok, 1) = Ch.o
        THEN IF At(tok, 2) # Ch.nul
             THEN LET n == Min(SumValueEntries(optspecs,
                                               DecodeAll(From(tok, 2))), left)
                  IN  <<"group">> \o Rep("value", n)
                        \o Roles(optspecs, argv, i + 1 + n, nonopt)
             ELSE IF left = 0 THEN <<"group">>
             ELSE LET n == Min(SumValueEntries(optspecs,
                                               DecodeAll(argv[i + 1])),
                               left - 1)
                  IN  <<"group", "groupvalue">> \o Rep("value", n)
                        \o Roles(optspecs, argv, i + 2 + n, nonopt)
        ELSE IF At(tok, 1) = Ch.dash /\ At(tok, 2) = Ch.nul
        THEN <<"separator">> \o Roles(optspecs, argv, i + 1, TRUE)
        ELSE LET n == Min(ValueEntries(optspecs, tok), left)
             IN  <<"flag">> \o Rep("value", n)
                   \o Roles(optspecs, argv, i + 1 + n, nonopt)

\* the roles of the tokens of the vector the current call was given; the
\* program name has none
InputRoles ==
  <<"name">> \o Roles(OptTables[call.opts], hist.orig.argv, 2, FALSE)

\* the stem of the entries "-b %d" and "-b "
LoneStem == <<Ch.dash, Ch.b>>

\* the current call was given a vector that ends in the lone stem, and its
\* table has an entry with that stem and a space separator
EndsInLoneStem ==
  /\ Finished /\ hist.pass = 1
  /\ call.opts \in {2, 3}
  /\ hist.orig.argc >= 2
  /\ LastOf(hist.orig.argv) = LoneStem

RefSeparator(templ) ==
  LET eqs  == {i \in 1..Len(templ) : templ[i] = Ch.eq}
      sps  == {i \in 1..Len(templ) : templ[i] = Ch.sp}
      cand == IF eqs # {} THEN eqs ELSE sps
  IN  IF cand = {} THEN 0
      ELSE LET first == CHOOSE i \in cand : \A j \in cand : i <= j
           IN  IF first = Len(templ) \/ templ[first + 1] = Ch.pct
               THEN first ELSE 0

\* the stem of a template with separator: what precedes the separator, and
\* the separator too when it is "="
RefStem(templ) ==
  LET p == RefSeparator(templ)
  IN  IF templ[p] = Ch.eq THEN SubSeq(templ, 1, p)
      ELSE SubSeq(templ, 1, p - 1)

\* C12: a template with a valid separator matches exactly the arguments that
\* begin with its stem (the "=" included for a "=" separator) - among them
\* the argument equal to the template - and the index returned is the
\* position of the separator; a template without valid separator matches
\* exactly the identical argument, with index 0.  On a match at a separator
\* behind the first character the parameter is what follows the stem.
\* "k=%d" matches "k=5" with parameter "5", and neither "kx=5" nor "k".
C12_TemplateMatching ==
  (unit.op = "match_template" /\ unit.done) =>
    LET t == unit.templ
        a == unit.arg
        p == RefSeparator(t)
    IN  /\ unit.out.match <=>
             IF p # 0 THEN (\E n \in 0..Len(a) : SubSeq(a, 1, n) = RefStem(t))
                             \/ a = t
             ELSE a = t
        /\ unit.out.match =>
             unit.out.sepidx = (IF p # 0 THEN p - 1 ELSE 0)
        /\ (unit.out.match /\ unit.out.sepidx # 0) =>
             a = RefStem(t) \o unit.param
        /\ (t = <<Ch.k, Ch.eq, Ch.pct, Ch.d>>) =>
             /\ a = <<Ch.k, Ch.eq, Ch.five>> =>
                  unit.out.match /\ unit.param = <<Ch.five>>
             /\ a = <<Ch.k, Ch.x, Ch.eq, Ch.five>> => ~unit.out.match
             /\ a = <<Ch.k>> => ~unit.out.match

\* C12 witness: "k=%d" has matched "k=5" with parameter "5"
C12_Witness ==
  /\ unit.op = "match_template" /\ unit.done
  /\ unit.templ = <<Ch.k, Ch.eq, Ch.pct, Ch.d>>
  /\ unit.arg = <<Ch.k, Ch.eq, Ch.five>>
  /\ unit.out = [match |-> TRUE, sepidx |-> 1]
  /\ unit.param = <<Ch.five>>

(* ---------------------------------------------------------------------- *)
(* group decoding                                                          *)
(* ---------------------------------------------------------------------- *)

\* the character at 1-based position i of v is escaped: it follows an odd
\* number of consecutive backslashes
IsEscaped(v, i) ==
  LET runs == {n \in 0..(i - 1) : \A j \in (i - n)..(i - 1) : v[j] = Ch.bsl}
      run  == CHOOSE n \in runs : \A m \in runs : m <= n
  IN  run % 2 = 1

\* the characters v[lo..hi] without the escaping backslashes (a backslash
\* that ends the value escapes nothing)
RECURSIVE RefPiece(_, _, _)
RefPiece(v, lo, hi) ==
  IF lo > hi THEN <<>>
  ELSE (IF v[lo] = Ch.bsl /\ ~IsEscaped(v, lo) /\ lo < Len(v)
        THEN <<>> ELSE <<v[lo]>>)
       \o RefPiece(v, lo + 1, hi)

\* the pieces of v from position lo on, cut at the unescaped commas
RECURSIVE RefSubopts(_, _)
RefSubopts(v, lo) ==
  LET cuts == {i \in lo..Len(v) : v[i] = Ch.comma /\ ~IsEscaped(v, i)}
  IN  IF cuts = {} THEN <<RefPiece(v, lo, Len(v))>>
      ELSE LET cut == CHOOSE i \in cuts : \A j \in cuts : i <= j
           IN  <<RefPiece(v, lo, cut - 1)>> \o RefSubopts(v, cut + 1)

\* the first token of the input is a group-option argument with its value
StartsWithGroup ==
  /\ hist.started
  /\ hist.orig.argc >= 2
  /\ At(hist.orig.argv[2], 0) = Ch.dash /\ At(hist.orig.argv[2], 1) = Ch.o
  /\ At(hist.orig.argv[2], 2) = Ch.nul => hist.orig.argc >= 3

FirstGroupValue ==
  IF At(hist.orig.argv[2], 2) # Ch.nul THEN From(hist.orig.argv[2], 2)
  ELSE hist.orig.argv[3]

NoDigits(v) == \A i \in 1..Len(v) : ~isdigit(v[i])

\* the sub-options handed to process_gopt so far, in order
OptionGopts ==
  LET g == SelectSeq(hist.gopts, LAMBDA e : e.typ = GOPT_OPTION)
  IN  [i \in 1..Len(g) |-> g[i].arg]

\* C13: the value of a -o group (without octal escapes) is dispatched as the
\* pieces between its unescaped commas, each with its escaping backslashes
\* removed ("\," gives ",", "\\" gives "\"), one call of process_gopt per
\* piece, from left to right, each call made before the rest of the value
\* is decoded.  "k\,x,u" is dispatched as "k,x", then "u".
C13_GroupDecoding ==
  (StartsWithGroup /\ NoDigits(FirstGroupValue)
     /\ Len(Roles(OptTables[call.opts], hist.orig.argv, 2, FALSE)) >= 1) =>
    LET ref  == RefSubopts(FirstGroupValue, 1)
        n    == Len(OptionGopts)
        here == pc \in {"group", "gopt", "entry"} /\ loc.typ = GOPT_OPTION
    IN  /\ IsPrefix(OptionGopts, ref)
        /\ (pc = "gopt" /\ loc.typ = GOPT_OPTION) =>
             n < Len(ref) /\ loc.arg = ref[n + 1]
        /\ (pc = "group") => n < Len(ref)
        /\ (here /\ ~loc.end /\ pc # "group") => n < Len(ref)
        /\ (here /\ pc = "entry" /\ loc.end) => n = Len(ref)
        /\ Succeeded => OptionGopts = ref
        /\ FirstGroupValue = <<Ch.k, Ch.bsl, Ch.comma, Ch.x, Ch.comma, Ch.u>>
             => ref = << <<Ch.k, Ch.comma, Ch.x>>, <<Ch.u>> >>

\* C13 witness: "k\,x,u" has been dispatched as "k,x" and "u"
C13_Witness ==
  /\ Succeeded /\ hist.pass = 1
  /\ hist.orig.argv[2]
       = GroupMarker \o <<Ch.k, Ch.bsl, Ch.comma, Ch.x, Ch.comma, Ch.u>>
  /\ OptionGopts = << <<Ch.k, Ch.comma, Ch.x>>, <<Ch.u>> >>

(* ---------------------------------------------------------------------- *)
(* the value of an entry with a space separator                            *)
(* ---------------------------------------------------------------------- *)

\* process_gopt is about to run an entry with a space separator for a token
\* that ends at the separator position, and another input token follows
TakesValue ==
  /\ pc = "entry"
  /\ loc.sep_idx # 0
  /\ At(in_opt[loc.opt].templ, loc.sep_idx) = Ch.sp
  /\ At(loc.arg, loc.sep_idx) = Ch.nul
  /\ ctx.tmp_argctr + 1 < ctx.in_args.argc

\* the input token after the cursor
NextToken == ctx.in_args.argv[ctx.tmp_argctr + 2]

\* the step of the entry uses the string merged: the cursor moves on to the
\* value token, what is offered to the callback is merged, what is kept is
\* merged, and the member is written with the conversion of the param of
\* merged (a failing conversion fails the parse)
UsesMerged(merged) ==
  LET opt == in_opt[loc.opt]
      cv  == process_opt_param(data[opt.offset],
                               From(opt.templ, loc.sep_idx + 1),
                               opt_param(opt.templ, loc.sep_idx, merged),
                               TRUE)
  IN  /\ ctx'.tmp_argctr =
           ctx.tmp_argctr + (IF pc' = "loop" THEN 2 ELSE 1)
      /\ \A i \in (Len(hist.log) + 1)..Len(hist'.log) :
           hist'.log[i].arg = merged
      /\ (pc' # "done" /\ ctx'.out_args # ctx.out_args) =>
           ctx'.out_args = Append(ctx.out_args, merged)
      /\ (pc' # "done" /\ ctx'.tmp_opts # ctx.tmp_opts) =>
           ctx'.tmp_opts = add_opt_common(ctx.tmp_opts, merged, TRUE)
      /\ (opt.offset # NoOffset /\ hist'.err # "alloc") =>
           IF cv.res = -1
           THEN pc' = "done" /\ ret' = -1 /\ hist'.err = "invalid"
                  /\ data' = data
           ELSE pc' # "done" /\ data' = [data EXCEPT ![opt.offset] = cv.val]
      /\ (opt.offset = NoOffset /\ hist'.err = "none") =>
           Len(hist'.log) = Len(hist.log) + 1

\* the cursor never goes back, and it has moved past the token at hand when
\* process_one has returned: a token taken as value is not classified
CursorMovesOn ==
  /\ pc \in {"loop", "group", "gopt", "entry"} =>
       ctx'.tmp_argctr >= ctx.tmp_argctr
  /\ (pc \in {"group", "gopt", "entry"} /\ pc' = "loop") =>
       ctx'.tmp_argctr > ctx.tmp_argctr

\* C14: an entry with a space separator whose token ends at the separator
\* takes the next input token as value and uses the one merged string
\* stem=value for the conversion, the callback and the output, and the
\* value token is not dispatched on its own.
C14_MergedStemEqValue ==
  [][ /\ TakesValue =>
           UsesMerged(SubSeq(loc.arg, 1, loc.sep_idx) \o <<Ch.eq>>
                        \o NextToken)
      /\ CursorMovesOn ]_vars

\* C14 as amended: the merged string is the stem directly followed by the
\* value, with nothing between them ("-b" and "5" give "-b5"); the
\* conversion gets the value, the callback and the output get the merged
\* string, and the value token is not dispatched on its own.
C14_MergedStemValue ==
  [][ /\ TakesValue =>
           UsesMerged(SubSeq(loc.arg, 1, loc.sep_idx) \o NextToken)
      /\ CursorMovesOn ]_vars

\* C14 witness: "-b" "5" was kept as "-b5" through the entry "-b " and the
\* cursor is behind the "5"
C14_Witness ==
  /\ pc = "loop" /\ hist.pass = 1 /\ call.opts = 3
  /\ hist.orig.argv = <<ProgName, LoneStem, <<Ch.five>>>>
  /\ ctx.tmp_argctr = 3
  /\ ctx.out_args = <<ProgName, <<Ch.dash, Ch.b, Ch.five>>>>
  /\ hist.gopts = <<[arg |-> LoneStem, typ |-> GOPT_FLAG]>>

(* ---------------------------------------------------------------------- *)
(* the positional region                                                   *)
(* ---------------------------------------------------------------------- *)

ActionRuns(key) ==
  /\ ctx.in_proc = "optdoc" /\ pc = "entry"
  /\ Len(hist'.log) = Len(hist.log) + 1
  /\ hist'.log[Len(hist'.log)].called
  /\ hist'.log[Len(hist'.log)].key = key

\* C16: when the action of the OPTPARAM option runs for an occurrence
\* "s=<param>", the entry writing the member has fired for that occurrence
\* and the member holds the conversion of <param>; when the action of the
\* OPTBOOL option runs for "u" ("xu"), the member is true (false) after the
\* invocation, set before the action; a failing conversion ends the pass
\* without any invocation of the proc for that occurrence.
C16_MemberSetBeforeAction ==
  [][ /\ ActionRuns(OptdocGroup.param.key) =>
           LET arg == hist'.log[Len(hist'.log)].arg
               cv  == sscanf_d(From(arg, 2))
           IN  /\ arg = loc.arg /\ SubSeq(arg, 1, 2) = <<Ch.s, Ch.eq>>
               /\ hist.fired = <<1>> /\ loc.opt = 2
               /\ hist.writes # <<>>
               /\ LastOf(hist.writes) = OptdocGroup.param.member
               /\ cv.n = 1
               /\ data[OptdocGroup.param.member] = IntVal(cv.val)
      /\ ActionRuns(OptdocGroup.bool.key_y) =>
           /\ loc.arg = <<Ch.u>>
           /\ data'[OptdocGroup.bool.member] = IntVal(1)
      /\ ActionRuns(OptdocGroup.bool.key_n) =>
           /\ loc.arg = <<Ch.x, Ch.u>>
           /\ data'[OptdocGroup.bool.member] = IntVal(0)
      /\ (ctx.in_proc = "optdoc" /\ hist'.err = "invalid"
            /\ hist.err = "none") =>
           /\ pc = "entry" /\ pc' = "done" /\ ret' = -1
           /\ hist'.log = hist.log /\ hist.fired = <<>>
           /\ data' = data
    ]_vars

\* C16 witness: the actions of both options have run in one pass, for
\* "s=7" with the member holding 7 and for "u" with the member true
C16_Witness ==
  /\ Succeeded /\ ctx.in_proc = "optdoc"
  /\ data[OptdocGroup.param.member] = IntVal(7)
  /\ data[OptdocGroup.bool.member] = IntVal(1)
  /\ \E i, j \in 1..Len(hist.log) :
       /\ hist.log[i].called /\ hist.log[i].key = OptdocGroup.param.key
       /\ hist.log[i].arg = <<Ch.s, Ch.eq, Ch.seven>>
       /\ hist.log[j].called /\ hist.log[j].key = OptdocGroup.bool.key_y

(* ---------------------------------------------------------------------- *)
(* octal escapes                                                           *)
(* ---------------------------------------------------------------------- *)

\* str up to its first c, and what follows that c
Before(str, c) ==
  LET I == {i \in 1..Len(str) : str[i] = c}
  IN  IF I = {} THEN str
      ELSE SubSeq(str, 1, (CHOOSE i \in I : \A j \in I : i <= j) - 1)

Behind(str, c) ==
  LET I == {i \in 1..Len(str) : str[i] = c}
  IN  IF I = {} THEN <<>>
      ELSE From(str, CHOOSE i \in I : \A j \in I : i <= j)

\* the parts of a group value with one escape \d1d2d3: the text before the
\* backslash, the three digits as numbers, the text behind the digits
OctalParts(v) ==
  LET pre == Before(v, Ch.bsl)
      e   == Len(pre)
  IN  [pre |-> pre,
       d1 |-> At(v, e + 1) - Ch.zero, d2 |-> At(v, e + 2) - Ch.zero,
       d3 |-> At(v, e + 3) - Ch.zero,
       digits |-> SubSeq(v, e + 2, e + 4),
       post |-> From(v, e + 4)]

\* the decoding loop starts on a group value that holds one octal escape
DecodesOctal ==
  /\ pc = "group" /\ loc.rest \in OctalValues

\* C17 as stated: every escape \d1d2d3 with digits 0..7 becomes one byte
\* of the sub-option handed to the dispatcher, the four characters are
\* consumed, and the text around it is dispatched with it up to the next
\* comma of the input.
C17_EveryOctalIsOneByte ==
  [][ DecodesOctal =>
        LET o == OctalParts(loc.rest)
        IN  /\ Len(loc'.arg)
                 = Len(o.pre) + 1 + Len(Before(o.post, Ch.comma))
            /\ SubSeq(loc'.arg, 1, Len(o.pre)) = o.pre
            /\ From(loc'.arg, Len(o.pre) + 1) = Before(o.post, Ch.comma)
            /\ loc'.rest = Behind(o.post, Ch.comma)
    ]_vars

\* C17 (amended): an escape whose first digit is 0..3 is consumed whole and
\* becomes the one byte d1*64 + d2*8 + d3 of the buffer; the sub-option
\* handed to the dispatcher is the buffer up to its first NUL byte, so a
\* decoded comma stays inside the sub-option and a decoded NUL ends it.  An
\* escape whose first digit is 4..7 is not decoded: the backslash is dropped
\* and the three digits are three bytes of the sub-option.
C17_OctalUpTo377 ==
  [][ DecodesOctal =>
        LET o    == OctalParts(loc.rest)
            byte == o.d1 * 64 + o.d2 * 8 + o.d3
            buf  == IF o.d1 <= 3
                    THEN o.pre \o <<byte>> \o Before(o.post, Ch.comma)
                    ELSE o.pre \o o.digits \o Before(o.post, Ch.comma)
        IN  /\ o.d1 <= 3 => byte \in 0..255
            /\ loc'.arg = Before(buf, Ch.nul)
            /\ (o.d1 <= 3 /\ byte = Ch.comma) =>
                 /\ Len(loc'.arg) = Len(buf)
                 /\ loc'.arg[Len(o.pre) + 1] = Ch.comma
            /\ loc'.rest = Behind(o.post, Ch.comma)
            /\ loc'.end = (Before(o.post, Ch.comma) = o.post)
            /\ pc' = "gopt"
    ]_vars

\* C17 witness: the value k\054,k has been decoded up to its comma; the
\* sub-option about to be dispatched is "k," and "k" is still to decode
C17_Witness ==
  /\ pc = "gopt" /\ loc.typ = GOPT_OPTION
  /\ CurArg = GroupMarker \o <<Ch.k, Ch.bsl, Ch.zero, Ch.five, Ch.four,
                               Ch.comma, Ch.k>>
  /\ loc.arg = <<Ch.k, Ch.comma>>
  /\ loc.rest = <<Ch.k>> /\ ~loc.end

(* ---------------------------------------------------------------------- *)
(* the group marker without a value                                        *)
(* ---------------------------------------------------------------------- *)

\* the main loop is about to classify a token that is exactly "-o"
AtBareMarker ==
  /\ InLoop /\ CurArg = GroupMarker

\* the step takes the next input token as the value of the group: the
\* cursor moves onto it, the decoding loop starts on it, nothing is
\* dispatched (or the copy of the value cannot be allocated)
TakesNextAsGroup ==
  \/ /\ pc' = "group"
     /\ ctx'.tmp_argctr = ctx.tmp_argctr + 1
     /\ loc'.rest = NextToken /\ loc'.typ = GOPT_OPTION
     /\ hist'.log = hist.log /\ hist'.gopts = hist.gopts
     /\ ctx'.out_args = ctx.out_args /\ ctx'.tmp_opts = ctx.tmp_opts
  \/ /\ pc' = "done" /\ ret' = -1 /\ hist'.err = "alloc"
     /\ hist'.log = hist.log /\ hist'.gopts = hist.gopts

\* the step fails the parse for a missing argument, dispatching nothing
FailsMissing ==
  /\ pc' = "done" /\ ret' = -1 /\ hist'.err = "missing"
  /\ hist'.log = hist.log /\ hist'.gopts = hist.gopts
  /\ args' = args /\ data' = data

\* the finished call was given a vector whose last token is exactly "-o",
\* with no "--" before it
MarkerIsLast ==
  /\ Finished /\ hist.pass = 1
  /\ hist.orig.argc >= 2
  /\ LastOf(hist.orig.argv) = GroupMarker
  /\ \A i \in 2..(hist.orig.argc - 1) : hist.orig.argv[i] # Separator

\* C18 as stated: wherever a token that is exactly "-o" stands in the input,
\* it takes the following token as its value, and as the last token outside
\* the positional region it fails the parse with a missing argument.
C18_MarkerAlwaysTakesNext ==
  /\ [][ AtBareMarker =>
            IF ctx.tmp_argctr + 1 < ctx.in_args.argc
            THEN TakesNextAsGroup
            ELSE ctx.tmp_nonopt = 0 => FailsMissing
        ]_vars
  /\ [](MarkerIsLast => ret = -1)

\* C18 (amended): a token that is exactly "-o" and that the main loop
\* classifies outside the positional region takes the following input token
\* as the value of the group and the cursor moves onto that token, from
\* where the loop only goes on behind it; without a following token the
\* parse fails with a missing argument and nothing is dispatched.  Inside
\* the positional region the token is a positional argument and the token
\* behind it is dispatched on its own.
C18_MarkerTakesNext ==
  [][ /\ (AtBareMarker /\ ctx.tmp_nonopt = 0) =>
           IF ctx.tmp_argctr + 1 < ctx.in_args.argc
           THEN TakesNextAsGroup
           ELSE FailsMissing
      /\ CursorMovesOn
      /\ (AtBareMarker /\ ctx.tmp_nonopt # 0 /\ pc' # "done") =>
           /\ pc' = "loop" /\ ctx'.tmp_argctr = ctx.tmp_argctr + 1
           /\ Len(hist'.log) = Len(hist.log) + 1
           /\ LastOf(hist'.log).arg = GroupMarker
           /\ LastOf(hist'.log).key = FUSE_OPT_KEY.NONOPT
    ]_vars

\* C18 witness: "-o" has taken the following token "k,x" as its value; the
\* cursor is on that token and the decoding loop is about to start on it
C18_Witness ==
  /\ pc = "group" /\ hist.pass = 1
  /\ ctx.tmp_argctr >= 1
  /\ ctx.in_args.argv[ctx.tmp_argctr] = GroupMarker
  /\ CurArg = <<Ch.k, Ch.comma, Ch.x>>
  /\ loc.rest = CurArg /\ loc.arg = <<>>

(* ---------------------------------------------------------------------- *)
(* the frame of the caller's record                                        *)
(* ---------------------------------------------------------------------- *)

\* the members for which the table of the pass has an entry
Destinations(optspecs) ==
  {optspecs[i].offset : i \in 1..Len(optspecs)} \ {NoOffset}

\* the step stores into member f of the record
Stores(f) ==
  \/ data'[f] # data[f]
  \/ /\ Len(hist'.writes) > Len(hist.writes)
     /\ \E i \in (Len(hist.writes) + 1)..Len(hist'.writes) :
          hist'.writes[i] = f

\* C19: a step of the parse stores into a member of the record only while
\* process_gopt is at an entry of the table of this pass that has the member
\* as its offset and whose template matches the token or sub-option being
\* processed; so a member that is the offset of no entry of the table of the
\* pass keeps its value through the whole pass.
C19_RecordFrame ==
  [][ /\ \A f \in Fields :
           Stores(f) =>
             /\ pc = "entry"
             /\ loc.opt \in 1..Len(OptTables[call.opts])
             /\ OptTables[call.opts][loc.opt].offset = f
             /\ match_template(OptTables[call.opts][loc.opt].templ,
                               loc.arg).match
             /\ loc.typ = GOPT_FLAG =>
                  \E i \in 1..ctx.in_args.argc : ctx.in_args.argv[i] = loc.arg
             /\ \A g \in Fields \ {f} : data'[g] = data[g]
      /\ \A f \in Fields \ Destinations(OptTables[call.opts]) :
           ~Stores(f)
    ]_vars

\* C19 witness: a pass whose only store went to member 1, for "-b" "5",
\* has finished; member 0, which the same table can set, is as it was
C19_Witness ==
  /\ Succeeded /\ hist.pass = 1 /\ call.opts = 2
  /\ hist.orig.argv = <<ProgName, <<Ch.dash, Ch.b>>, <<Ch.five>>>>
  /\ hist.writes = <<1>>
  /\ data[1] = IntVal(5) /\ data[0] = Unset

(* ---------------------------------------------------------------------- *)
(* fuse_opt_insert_arg                                                     *)
(* ---------------------------------------------------------------------- *)

\* a call of fuse_opt_insert_arg has returned
Inserted == unit.op = "insert_arg" /\ unit.done

\* C20: after fuse_opt_insert_arg(args, pos, s) with 0 <= pos <= argc has
\* returned 0, argc is one larger, argv[pos] is s, the entries before pos
\* are as before, every entry formerly at i >= pos is at i + 1, and
\* argv[argc] is NULL; after it has returned -1, argc and the entries are as
\* before.  The entries are those the parser's vector operation gives.
C20_InsertArg ==
  Inserted =>
    LET old == unit.args
        new == unit.out
        pos == unit.pos
    IN  /\ unit.res \in {0, 0 - 1}
        /\ unit.res = 0 =>
             /\ new.argc = old.argc + 1
             /\ Len(new.argv) = new.argc + 1
             /\ new.argv[pos + 1] = unit.arg
             /\ \A i \in 0..(pos - 1) : new.argv[i + 1] = old.argv[i + 1]
             /\ \A i \in pos..(old.argc - 1) :
                  new.argv[i + 2] = old.argv[i + 1]
             /\ new.argv[new.argc + 1] = NullPtr
             /\ new.allocated
             /\ SubSeq(new.argv, 1, new.argc)
                  = fuse_opt_insert_arg(SubSeq(old.argv, 1, old.argc),
                                        pos, unit.arg)
        /\ unit.res = 0 - 1 => new = old

\* C20 witness: "x" has been inserted at position 1 of "p" "k" "u", between
\* entries that stay and entries that are shifted
C20_Witness ==
  /\ Inserted /\ unit.res = 0
  /\ unit.args.argv = <<<<Ch.p>>, <<Ch.k>>, <<Ch.u>>, NullPtr>>
  /\ unit.pos = 1 /\ unit.arg = <<Ch.x>>
  /\ unit.out.argv = <<<<Ch.p>>, <<Ch.x>>, <<Ch.k>>, <<Ch.u>>, NullPtr>>

(* ---------------------------------------------------------------------- *)
(* termination and the input cursor                                        *)
(* ---------------------------------------------------------------------- *)

\* the call is inside fuse_opt_parse, behind the early return
InParse == pc \in {"loop", "group", "gopt", "entry"}

\* C21: every call of fuse_opt_parse returns (with 0 or -1).  While it
\* runs, the cursor never moves backwards and is larger whenever the main
\* loop is entered again; it never exceeds argc; the token under the cursor
\* while a token or group is being processed, and every token a step moves
\* the cursor onto as a value, is at an index below argc.
C21_TerminationAndCursor ==
  /\ (pc = "init") ~> (pc = "done" /\ ret \in {0, -1})
  /\ [](InParse => ctx.tmp_argctr <= ctx.in_args.argc)
  /\ [](pc \in {"group", "gopt", "entry"} =>
          ctx.tmp_argctr < ctx.in_args.argc)
  /\ [][ /\ InParse => ctx'.tmp_argctr >= ctx.tmp_argctr
         /\ (InParse /\ pc' = "loop") => ctx'.tmp_argctr > ctx.tmp_argctr
         /\ (InParse /\ ctx'.tmp_argctr > ctx.tmp_argctr /\ pc' # "loop") =>
              /\ ctx'.tmp_argctr = ctx.tmp_argctr + 1
              /\ ctx'.tmp_argctr < ctx.in_args.argc
         /\ (InParse /\ pc' # "done") =>
              ctx'.in_args.argc = ctx.in_args.argc
         /\ (InParse /\ pc' = "done" /\ ret' = 0) =>
              /\ pc = "loop" /\ ctx.tmp_argctr = ctx.in_args.argc
     ]_vars

\* C21 witness: a pass over three tokens has returned 0 after a "-o" took
\* the last token as its value and the cursor ended at argc
C21_Witness ==
  /\ Succeeded /\ hist.pass = 1
  /\ hist.orig.argc = 3 /\ hist.orig.argv[2] = GroupMarker
  /\ ctx.tmp_argctr = 3 /\ hist.gopts # <<>>

(* ---------------------------------------------------------------------- *)
(* one value per occurrence                                                *)
(* ---------------------------------------------------------------------- *)

\* entry number i of the table matches the current gopt at a space
\* separator with nothing behind it: its value is in the following token
ValueInNext(i) ==
  LET m == match_template(in_opt[i].templ, loc.arg)
  IN  /\ m.match /\ m.sepidx # 0
      /\ At(in_opt[i].templ, m.sepidx) = Ch.sp
      /\ At(loc.arg, m.sepidx) = Ch.nul

\* an entry that has fired for the current gopt has taken its value from
\* the following token
ValueAlreadyTaken ==
  \E j \in 1..Len(hist.fired) : ValueInNext(hist.fired[j])

\* C22: when a further entry matches an occurrence whose value an earlier
\* entry has already taken from the following token, it uses that same
\* token: it takes no other token from the input (the cursor stays on the
\* value until the loop steps over it), it does not fail for a missing
\* argument, and what it converts or offers to the callback is the stem
\* followed by that value.
C22_OneValuePerOccurrence ==
  [][ (pc = "entry" /\ ValueInNext(loc.opt) /\ ValueAlreadyTaken) =>
        /\ hist'.err # "missing"
        /\ ctx'.tmp_argctr
             = ctx.tmp_argctr + (IF pc' = "loop" THEN 1 ELSE 0)
        /\ (Len(hist'.log) > Len(hist.log)) =>
             LastOf(hist'.log).arg = mergedarg(loc.arg, loc.sep_idx, CurArg)
    ]_vars

(* ---------------------------------------------------------------------- *)
(* kept once                                                               *)
(* ---------------------------------------------------------------------- *)

\* the dispatches made so far for the current gopt: one for every entry
\* without destination that has fired for it
EventsOfCurrent ==
  LET n == Cardinality({j \in 1..Len(hist.fired) :
                          in_opt[hist.fired[j]].offset = NoOffset})
  IN  SubSeq(hist.log, Len(hist.log) - n + 1, Len(hist.log))

\* C23: a token or sub-option is added to the output by at most one of the
\* entries that match it, and a kept token of a one-token command line is
\* in the output of a successful pass exactly once.
C23_KeptExactlyOnce ==
  /\ [][ (pc = "entry" /\ Len(hist'.log) = Len(hist.log) + 1
            /\ LastOf(hist'.log).added) =>
           \A i \in 1..Len(EventsOfCurrent) : ~EventsOfCurrent[i].added
       ]_vars
  /\ [](( /\ Succeeded /\ hist.pass = 1 /\ hist.orig.argc = 2
          /\ \E i \in 1..Len(hist.log) : hist.log[i].added ) =>
          CountOf(args.argv, hist.orig.argv[2]) = 1)

(* ---------------------------------------------------------------------- *)
(* the merge accumulator                                                   *)
(* ---------------------------------------------------------------------- *)

\* C24: while a pass runs, the accumulator is unset when no sub-option has
\* been kept, and otherwise the group decoder applied to it gives back the
\* kept sub-options: same number, same order, same contents.
C24_AccumulatorRoundTrip ==
  (hist.started /\ pc \in {"loop", "group", "gopt", "entry"}) =>
    IF KeptSubopts = <<>>
    THEN ~ctx.tmp_opts.set
    ELSE /\ ctx.tmp_opts.set
         /\ DecodeAll(ctx.tmp_opts.str) = KeptSubopts

(* ---------------------------------------------------------------------- *)
(* entries with a destination                                              *)
(* ---------------------------------------------------------------------- *)

\* every entry of the table of the pass whose template matches arg has a
\* destination, and there is such an entry
AllDestinations(optspecs, arg) ==
  LET m == MatchingEntries(optspecs, 1, arg)
  IN  /\ m # <<>>
      /\ \A i \in 1..Len(m) : optspecs[m[i]].offset # NoOffset

\* the template of the entry asks for a conversion ("%d", "%s")
HasFormat(templ) ==
  \E i \in 1..Len(templ) : templ[i] = Ch.pct

\* the strings of a sequence
Members(seq) ==
  {seq[i] : i \in 1..Len(seq)}

\* C25: a flag token or sub-option all of whose matching entries of the
\* table have a destination is consumed.  At each of its entries
\* process_gopt calls no callback and makes no keep or discard decision (the
\* log of dispatches stays as it is), and either the pass fails there (no
\* value token left, allocation failure, a value the format rejects) or the
\* member at the entry's offset is written, with the entry's value when the
\* template has no format, while the output vector and the "-o" accumulator
\* stay as they are; this for every value field, FUSE_OPT_KEY_KEEP included.
\* So after a pass that succeeded no dispatch but that of a positional
\* argument names the token, a flag that was not also given as a positional
\* argument is not in the output vector, and a sub-option is not in the
\* group that the pass put behind the program name.
C25_DestinationConsumes ==
  /\ [][ (pc = "entry" /\ AllDestinations(in_opt, loc.arg)) =>
           LET opt == in_opt[loc.opt]
           IN  /\ hist'.log = hist.log
               /\ pc' = "done" =>
                    /\ ret' = -1
                    /\ hist'.err \in {"missing", "alloc", "invalid"}
               /\ pc' # "done" =>
                    /\ LeavesOutputAlone
                    /\ hist'.writes = Append(hist.writes, opt.offset)
                    /\ data'[opt.offset] # Unset
                    /\ ~HasFormat(opt.templ) =>
                         data'[opt.offset] = IntVal(opt.value)
                    /\ \A g \in Fields \ {opt.offset} : data'[g] = data[g]
       ]_vars
  /\ [](Succeeded =>
          \A n \in 1..Len(hist.gopts) :
            LET g == hist.gopts[n]
            IN  AllDestinations(OptTables[call.opts], g.arg) =>
                  /\ \A e \in 1..Len(hist.log) :
                       hist.log[e].arg = g.arg =>
                         hist.log[e].key = FUSE_OPT_KEY.NONOPT
                  /\ (/\ g.typ = GOPT_FLAG
                      /\ \A e \in 1..Len(hist.log) :
                           hist.log[e].arg # g.arg) =>
                       g.arg \notin Members(args.argv)
                  /\ (/\ g.typ = GOPT_OPTION
                      /\ args.argc >= 3
                      /\ args.argv[2] = GroupMarker) =>
                       g.arg \notin Members(DecodeAll(args.argv[3])))

\* C25 witness: the pass over "-x" "-d" with table 7 has succeeded: both
\* entries of "-x" and the entry of "-d", whose value is FUSE_OPT_KEY_KEEP,
\* wrote their members, there was no dispatch, and only the program name is
\* in the output vector
C25_Witness ==
  /\ Succeeded /\ hist.pass = 1 /\ call.opts = 7
  /\ hist.orig.argv = <<ProgName, <<Ch.dash, Ch.x>>, <<Ch.dash, Ch.d>>>>
  /\ hist.writes = <<0, 1, 0>>
  /\ data[0] = IntVal(FUSE_OPT_KEY.KEEP) /\ data[1] = IntVal(1)
  /\ hist.log = <<>>
  /\ args.argv = <<ProgName>>

\* C25, a second case: the group "d,u" has been parsed with table 7 and the
\* callback kept "u"; the group of the output holds "u" alone
C25_GroupCase ==
  /\ Succeeded /\ hist.pass = 1 /\ call.opts = 7
  /\ hist.orig.argv = <<ProgName, GroupMarker, <<Ch.d, Ch.comma, Ch.u>>>>
  /\ data[0] = IntVal(FUSE_OPT_KEY.KEEP)
  /\ args.argv = <<ProgName, GroupMarker, <<Ch.u>>>>

\* C25, a third case: the value of "-b" is rejected by "%d" and the pass
\* fails without a dispatch
C25_RejectedValue ==
  /\ Finished /\ ret = -1 /\ hist.err = "invalid" /\ call.opts = 7
  /\ hist.orig.argv = <<ProgName, <<Ch.dash, Ch.b>>, <<Ch.dash, Ch.k>>>>
  /\ hist.log = <<>>

====
